---- MODULE Spec2Model ----
(***************************************************************************)
(* Verification model of the ClangDataStructureToolkit containers.         *)
(*                                                                         *)
(* Part 1: the open-addressing hash set of src/src/int64Set.c.             *)
(* Part 2: the separate-chaining hash maps of src/src/int64Hashmap.c and   *)
(*         src/src/int64int64Hashmap.c.                                    *)
(* Part 3: the array-backed containers of src/IntegerDynamicArray.c,       *)
(*         src/src/integerStack.c, src/src/stringStack.c,                  *)
(*         src/src/int64MaxHeap.c and src/src/int64PriorityQueue.c.        *)
(* Part 4: the linked containers of src/src/genericLinkedList.c,           *)
(*         src/src/int64DoublyLinkedList.c and src/stringDynamicArray.c.   *)
(*                                                                         *)
(* Every container has its own specifications (SpecSet, SpecTomb, SpecD,   *)
(* SpecCreate for the set; SpecMap, SpecB, SpecGrow, SpecHash for the      *)
(* maps; SpecBox, SpecAppend, SpecStack, SpecHeap, SpecOwn, SpecPair for   *)
(* the arrays; SpecList, SpecDList, SpecStrings for the linked             *)
(* containers); the variables of the other containers stay at their        *)
(* initial values in them.                                                 *)
(***************************************************************************)
EXTENDS Integers, Sequences, FiniteSets, TLC

VARIABLES
    set,      \* the Int64Set struct: slots, size, capacity, loadFactor
    members,  \* reference model: the mathematical set the calls describe
    last,     \* the last call on the set and what it returned
    pc,       \* position of the driver (scenario specifications only)
    map,      \* the hashmap struct: capacity, size, buckets (chains, head first)
    kind,     \* which of the two hashmaps it is
    mref,     \* reference model: the key -> value association the calls describe
    mlast,    \* the last call on the hashmap and what it returned
    filled,   \* number of keys the resizing loop of main has upserted
    box,      \* the array-backed container struct: data, size / top, capacity
    bctx,     \* which array-backed container it is and how it was created
    blast,    \* the last call on the array-backed container and what it returned
    hcall,    \* a call of hashInt64 on a full-width key: key, capacity, index
    bref,     \* reference model: what the calls on the array-backed container describe
    list,     \* the linked list struct (head, tail, size), the nodes and the payloads
    lkind,    \* which of the linked containers it is
    llast     \* the last call on the linked list and what it returned

setVars == <<set, members, last, pc>>

mapVars == <<map, kind, mref, mlast, filled>>

boxVars == <<box, bctx, blast>>

listVars == <<list, lkind, llast>>

\* the variables a hash-set step leaves alone, and likewise for the others
notSetVars == <<mapVars, boxVars, hcall, bref, listVars>>

notMapVars == <<set, members, last, boxVars, hcall, bref, listVars>>

notBoxVars == <<setVars, mapVars, hcall, bref, listVars>>

notHashVars == <<setVars, mapVars, boxVars, bref, listVars>>

notListVars == <<setVars, mapVars, boxVars, hcall, bref>>

vars == <<set, members, last, pc, map, kind, mref, mlast, filled, box, bctx, blast, hcall,
          bref, list, lkind, llast>>

(***************************************************************************)
(* Bounds of the model.                                                    *)
(***************************************************************************)
MaxCapacity == 6    \* an insert that would grow the table past this is not issued
MaxFill == 10       \* keys the resizing loop of the hashmap demo upserts at most
MaxDoublings == 10  \* resizes of a hashmap: capacities 16 * 2^j up to this j
MaxBoxCapacity == 4 \* an append / push / insert that would grow the array past this is not issued

(***************************************************************************)
(* 64-bit unsigned arithmetic.  TLC integers are 32 bits wide, so a        *)
(* uint64_t is a sequence of 8 bytes, least significant byte first, and    *)
(* every operation is taken modulo 2^64 as in C.                           *)
(***************************************************************************)
Min(S) == CHOOSE x \in S : \A y \in S : x <= y

RECURSIVE Bytes(_, _)
Bytes(n, cnt) == IF cnt = 0 THEN <<>> ELSE <<n % 256>> \o Bytes(n \div 256, cnt - 1)

\* (uint64_t)key for an int64_t key: two's complement for a negative key
ToU64(key) ==
    IF key >= 0 THEN Bytes(key, 8)
    ELSE LET b == Bytes((-key) - 1, 8) IN [i \in 1..8 |-> 255 - b[i]]

ByteAt(x, i) == IF i >= 1 /\ i <= 8 THEN x[i] ELSE 0

RECURSIVE Pow2(_)
Pow2(n) == IF n = 0 THEN 1 ELSE 2 * Pow2(n - 1)

\* x >> n
ShiftRight(x, n) ==
    LET q == n \div 8
        r == n % 8
    IN  [i \in 1..8 |->
            (ByteAt(x, i + q) \div Pow2(r))
            + (ByteAt(x, i + q + 1) % Pow2(r)) * Pow2(8 - r)]

RECURSIVE XorBits(_, _, _)
XorBits(a, b, n) ==
    IF n = 0 THEN 0
    ELSE (((a % 2) + (b % 2)) % 2) + 2 * XorBits(a \div 2, b \div 2, n - 1)

\* x ^ y
Xor(x, y) == [i \in 1..8 |-> XorBits(x[i], y[i], 8)]

RECURSIVE ColumnSum(_, _, _, _)
ColumnSum(x, y, k, i) ==
    IF i > k THEN 0 ELSE x[i] * y[k + 1 - i] + ColumnSum(x, y, k, i + 1)

RECURSIVE Carry(_, _, _, _)
Carry(x, y, k, c) ==
    IF k > 8 THEN <<>>
    ELSE LET s == ColumnSum(x, y, k, 1) + c
         IN  <<(s % 256)>> \o Carry(x, y, k + 1, s \div 256)

\* x * y, truncated to 64 bits
Mul(x, y) == Carry(x, y, 1, 0)

RECURSIVE ModFrom(_, _, _, _)
ModFrom(x, m, i, r) ==
    IF i = 0 THEN r ELSE ModFrom(x, m, i - 1, ((r * 256) + x[i]) % m)

\* x % m for a small positive m
Mod(x, m) == ModFrom(x, m, 8, 0)

Mix1 == <<185, 229, 228, 28, 109, 71, 88, 191>>    \* 0xbf58476d1ce4e5b9
Mix2 == <<235, 17, 49, 19, 187, 73, 208, 148>>     \* 0x94d049bb133111eb

\* one round of the mix: x = ((x >> shift) ^ x) * mult
MixRound(x, shift, mult) == Mul(Xor(ShiftRight(x, shift), x), mult)

\* the last line of the mix: (x >> 31) ^ x
MixFinal(x) == Xor(ShiftRight(x, 31), x)

int64Hash(key) == MixFinal(MixRound(MixRound(ToU64(key), 30, Mix1), 27, Mix2))

(***************************************************************************)
(* Inputs of the hash-set specifications.                                  *)
(***************************************************************************)
Keys == {-1, 0, 5}               \* keys of the calls of SpecSet; 0 and 5 share a home index
TombKeys == {-1, 0, 3, 5, 9}     \* keys of the calls of SpecTomb
InitCapacities == {2, 3}         \* capacity argument of int64SetCreate
\* loadFactor argument of int64SetCreate.  The values are dyadic, so the
\* float is exact and (double)(size + 1) / capacity > loadFactor is the
\* comparison of the rationals.
LoadFactors == {[num |-> 1, den |-> 2], [num |-> 3, den |-> 4]}

ScenarioCapacity == 10           \* main: int64SetCreate(10, 0.75f)
ScenarioLoadFactor == [num |-> 3, den |-> 4]
ScenarioKeys == 20               \* main, Test 1: for (i = 0; i < 20; i++)
ScenarioProbes == 25             \* main, Test 3: for (i = 0; i < 25; i++)

AllKeys == Keys \cup (0 .. (ScenarioProbes - 1))

\* int64Hash of every key a call can pass, computed once
HashOf == [k \in AllKeys |-> int64Hash(k)]

\* int64Hash(key) % capacity
HomeIndex(key, capacity) == Mod(HashOf[key], capacity)

(***************************************************************************)
(* Int64Set: typedef struct { slots, size, capacity, loadFactor }.         *)
(* slots is a function on 0 .. capacity-1 of HashSlot records.             *)
(***************************************************************************)
EMPTY == "EMPTY"
OCCUPIED == "OCCUPIED"
DELETED == "DELETED"

\* calloc(capacity, sizeof(HashSlot)) followed by the loop that sets EMPTY
FreshSlots(capacity) == [i \in 0 .. (capacity - 1) |-> [key |-> 0, state |-> EMPTY]]

int64SetCreate(capacity, loadFactor) ==
    [slots |-> FreshSlots(capacity), size |-> 0, capacity |-> capacity,
     loadFactor |-> loadFactor]

\* RehashKey without the probe loop: the key goes to its home slot
RehashKey_NoProbe(newSlots, newCapacity, key) ==
    [newSlots EXCEPT ![HomeIndex(key, newCapacity)] = [key |-> key, state |-> OCCUPIED]]

\* the inner probe loop of int64SetResize for one key
RehashKey(newSlots, newCapacity, key) ==
    LET index == HomeIndex(key, newCapacity)
        free == {j \in 0 .. (newCapacity - 1) :
                    newSlots[(index + j) % newCapacity].state # OCCUPIED}
    IN  IF free = {} THEN newSlots
        ELSE [newSlots EXCEPT ![(index + Min(free)) % newCapacity] =
                                  [key |-> key, state |-> OCCUPIED]]

\* RehashFrom that re-inserts every non-EMPTY slot, tombstones included
RECURSIVE RehashFrom_CopiesDeleted(_, _, _, _, _)
RehashFrom_CopiesDeleted(i, oldSlots, oldCapacity, newSlots, newCapacity) ==
    IF i >= oldCapacity THEN newSlots
    ELSE RehashFrom_CopiesDeleted(i + 1, oldSlots, oldCapacity,
                    IF oldSlots[i].state # EMPTY
                    THEN RehashKey(newSlots, newCapacity, oldSlots[i].key)
                    ELSE newSlots,
                    newCapacity)

\* the outer loop of int64SetResize over the old slots, from index i on
RECURSIVE RehashFrom(_, _, _, _, _)
RehashFrom(i, oldSlots, oldCapacity, newSlots, newCapacity) ==
    IF i >= oldCapacity THEN newSlots
    ELSE RehashFrom(i + 1, oldSlots, oldCapacity,
                    IF oldSlots[i].state = OCCUPIED
                    THEN RehashKey(newSlots, newCapacity, oldSlots[i].key)
                    ELSE newSlots,
                    newCapacity)

\* int64SetResize that forgets set->capacity = newCapacity
int64SetResize_KeepsCapacity(s, newCapacity, allocOk) ==
    IF ~allocOk THEN [ok |-> FALSE, set |-> s]
    ELSE [ok |-> TRUE,
          set |-> [s EXCEPT
                     !.slots = RehashFrom(0, s.slots, s.capacity,
                                          FreshSlots(newCapacity), newCapacity)]]

\* allocOk: whether calloc of the new slot array succeeds
int64SetResize(s, newCapacity, allocOk) ==
    IF ~allocOk THEN [ok |-> FALSE, set |-> s]
    ELSE [ok |-> TRUE,
          set |-> [s EXCEPT
                     !.slots = RehashFrom(0, s.slots, s.capacity,
                                          FreshSlots(newCapacity), newCapacity),
                     !.capacity = newCapacity]]

\* a threshold test on size instead of size + 1
NeedsResize_BeforeCount(s) == s.size * s.loadFactor.den > s.loadFactor.num * s.capacity

\* (double)(set->size + 1) / set->capacity > set->loadFactor
NeedsResize(s) == (s.size + 1) * s.loadFactor.den > s.loadFactor.num * s.capacity

\* InsertProbe without the already-present branch
InsertProbe_NoDuplicateCheck(s, key) ==
    LET index == HomeIndex(key, s.capacity)
        stop == {i \in 0 .. (s.capacity - 1) :
                    s.slots[(index + i) % s.capacity].state # OCCUPIED}
    IN  IF stop = {}
        THEN LET probe == index
             IN  [set |-> [s EXCEPT !.slots[probe] = [key |-> key, state |-> OCCUPIED]],
                  ret |-> TRUE]
        ELSE LET probe == (index + Min(stop)) % s.capacity
             IN  [set |-> [s EXCEPT !.slots[probe] = [key |-> key, state |-> OCCUPIED],
                                    !.size = s.size + 1],
                  ret |-> TRUE]

\* the probe loop of int64SetInsert on the (possibly resized) set
InsertProbe(s, key) ==
    LET index == HomeIndex(key, s.capacity)
        stop == {i \in 0 .. (s.capacity - 1) :
                    LET slot == s.slots[(index + i) % s.capacity]
                    IN  \/ slot.state # OCCUPIED
                        \/ slot.state = OCCUPIED /\ slot.key = key}
    IN  IF stop = {} THEN [set |-> s, ret |-> FALSE]
        ELSE LET probe == (index + Min(stop)) % s.capacity
             IN  IF s.slots[probe].state # OCCUPIED
                 THEN [set |-> [s EXCEPT !.slots[probe] = [key |-> key, state |-> OCCUPIED],
                                         !.size = s.size + 1],
                       ret |-> TRUE]
                 ELSE [set |-> s, ret |-> FALSE]

int64SetInsert(s, key, allocOk) ==
    IF NeedsResize(s)
    THEN LET r == int64SetResize(s, s.capacity * 2, allocOk)
         IN  IF ~r.ok THEN [set |-> s, ret |-> FALSE, resized |-> FALSE]
             ELSE LET p == InsertProbe(r.set, key)
                  IN  [set |-> p.set, ret |-> p.ret, resized |-> TRUE]
    ELSE LET p == InsertProbe(s, key)
         IN  [set |-> p.set, ret |-> p.ret, resized |-> FALSE]

\* a probe loop that takes a DELETED slot still holding the key for a match
LookupStops_AnyState(s, key) ==
    LET index == HomeIndex(key, s.capacity)
    IN  {i \in 0 .. (s.capacity - 1) :
            LET slot == s.slots[(index + i) % s.capacity]
            IN  \/ slot.state = EMPTY
                \/ slot.state # EMPTY /\ slot.key = key}

\* the probe loop shared by int64SetRemove and int64SetContains: the offsets
\* at which the loop returns
LookupStops(s, key) ==
    LET index == HomeIndex(key, s.capacity)
    IN  {i \in 0 .. (s.capacity - 1) :
            LET slot == s.slots[(index + i) % s.capacity]
            IN  \/ slot.state = EMPTY
                \/ slot.state = OCCUPIED /\ slot.key = key}

\* int64SetRemove that marks the slot EMPTY instead of DELETED
int64SetRemove_MarksEmpty(s, key) ==
    LET index == HomeIndex(key, s.capacity)
        stop == LookupStops(s, key)
    IN  IF stop = {} THEN [set |-> s, ret |-> FALSE]
        ELSE LET probe == (index + Min(stop)) % s.capacity
             IN  IF s.slots[probe].state = EMPTY
                 THEN [set |-> s, ret |-> FALSE]
                 ELSE [set |-> [s EXCEPT !.slots[probe].state = EMPTY,
                                         !.size = s.size - 1],
                       ret |-> TRUE]

int64SetRemove(s, key) ==
    LET index == HomeIndex(key, s.capacity)
        stop == LookupStops(s, key)
    IN  IF stop = {} THEN [set |-> s, ret |-> FALSE]
        ELSE LET probe == (index + Min(stop)) % s.capacity
             IN  IF s.slots[probe].state = EMPTY
                 THEN [set |-> s, ret |-> FALSE]
                 ELSE [set |-> [s EXCEPT !.slots[probe].state = DELETED,
                                         !.size = s.size - 1],
                       ret |-> TRUE]

int64SetContains(s, key) ==
    LET index == HomeIndex(key, s.capacity)
        stop == LookupStops(s, key)
    IN  IF stop = {} THEN FALSE
        ELSE s.slots[(index + Min(stop)) % s.capacity].state # EMPTY

int64SetSize(s) == s.size

(***************************************************************************)
(* The calls, as steps of a driver.  `last` records the call and what it   *)
(* returned; `members` is the mathematical set the calls describe.         *)
(***************************************************************************)
NumDeleted(s) == Cardinality({i \in DOMAIN s.slots : s.slots[i].state = DELETED})
NumOccupied(s) == Cardinality({i \in DOMAIN s.slots : s.slots[i].state = OCCUPIED})

NoCall == [op |-> "create", key |-> 0, ret |-> TRUE, resized |-> FALSE,
           allocOk |-> TRUE, dropped |-> 0]

InsertCall(k, allocOk) ==
    /\ LET r == int64SetInsert(set, k, allocOk)
       IN  /\ set' = r.set
           /\ last' = [op |-> "insert", key |-> k, ret |-> r.ret,
                       resized |-> r.resized, allocOk |-> allocOk,
                       dropped |-> IF r.resized THEN NumDeleted(set) ELSE 0]
    /\ members' = IF allocOk \/ ~NeedsResize(set) THEN members \cup {k} ELSE members

RemoveCall(k) ==
    /\ LET r == int64SetRemove(set, k)
       IN  /\ set' = r.set
           /\ last' = [op |-> "remove", key |-> k, ret |-> r.ret,
                       resized |-> FALSE, allocOk |-> TRUE, dropped |-> 0]
    /\ members' = members \ {k}

ContainsCall(k) ==
    /\ last' = [op |-> "contains", key |-> k, ret |-> int64SetContains(set, k),
                resized |-> FALSE, allocOk |-> TRUE, dropped |-> 0]
    /\ UNCHANGED <<set, members>>

(***************************************************************************)
(* SpecSet: any sequence of insert / remove / contains calls.              *)
(***************************************************************************)
\* the array-backed containers while another container is driven
IdleBox ==
    /\ box = [data |-> <<>>, size |-> 0, capacity |-> 0]
    /\ bctx = [kind |-> "none", cap0 |-> 0, built |-> FALSE]
    /\ blast = <<>>
    /\ bref = <<>>

\* the linked containers while another container is driven
IdleList ==
    /\ list = <<>>
    /\ lkind = "none"
    /\ llast = <<>>

\* no call of hashInt64 on a full-width key
IdleHash == hcall = <<>>

\* the hashmap while the hash set is driven
IdleMap ==
    /\ map = [capacity |-> 0, size |-> 0, buckets |-> <<>>]
    /\ kind = "none"
    /\ mref = <<>>
    /\ mlast = <<>>
    /\ filled = 0

InitSet ==
    /\ \E c \in InitCapacities, lf \in LoadFactors : set = int64SetCreate(c, lf)
    /\ members = {}
    /\ last = NoCall
    /\ pc = 0
    /\ IdleMap
    /\ IdleBox
    /\ IdleHash
    /\ IdleList

\* an insert that has to grow the table is issued only up to MaxCapacity
InsertAllowed(s) == NeedsResize(s) => s.capacity * 2 <= MaxCapacity

Insert(k, allocOk) ==
    InsertAllowed(set) /\ InsertCall(k, allocOk) /\ UNCHANGED <<pc, notSetVars>>

Remove(k) == RemoveCall(k) /\ UNCHANGED <<pc, notSetVars>>

Contains(k) == ContainsCall(k) /\ UNCHANGED <<pc, notSetVars>>

NextSet ==
    \/ \E k \in Keys, allocOk \in BOOLEAN : Insert(k, allocOk)
    \/ \E k \in Keys : Remove(k)
    \/ \E k \in Keys : Contains(k)

SpecSet == InitSet /\ [][NextSet]_vars

(***************************************************************************)
(* SpecTomb: distinct keys are inserted into a fresh set, one of them is   *)
(* removed and inserted again, then membership is queried.                 *)
(***************************************************************************)
InitTomb ==
    /\ \E c \in InitCapacities, lf \in LoadFactors : set = int64SetCreate(c, lf)
    /\ members = {}
    /\ last = NoCall
    /\ pc = "fill"
    /\ IdleMap
    /\ IdleBox
    /\ IdleHash
    /\ IdleList

TombFill(k) ==
    /\ pc = "fill"
    /\ k \notin members
    /\ InsertAllowed(set)
    /\ InsertCall(k, TRUE)
    /\ pc' = "fill"
    /\ UNCHANGED notSetVars

TombRemove(k) ==
    /\ pc = "fill"
    /\ k \in members
    /\ RemoveCall(k)
    /\ pc' = "removed"
    /\ UNCHANGED notSetVars

TombReinsert ==
    /\ pc = "removed"
    /\ InsertAllowed(set)
    /\ InsertCall(last.key, TRUE)
    /\ pc' = "reinserted"
    /\ UNCHANGED notSetVars

TombContains(k) ==
    /\ pc = "reinserted"
    /\ ContainsCall(k)
    /\ pc' = "reinserted"
    /\ UNCHANGED notSetVars

NextTomb ==
    \/ \E k \in TombKeys : TombFill(k)
    \/ \E k \in TombKeys : TombRemove(k)
    \/ TombReinsert
    \/ \E k \in TombKeys : TombContains(k)

SpecTomb == InitTomb /\ [][NextTomb]_vars

(***************************************************************************)
(* SpecD: the demo of main.  pc is the number of inserts made so far.      *)
(***************************************************************************)
InitD ==
    /\ set = int64SetCreate(ScenarioCapacity, ScenarioLoadFactor)
    /\ members = {}
    /\ last = NoCall
    /\ pc = 0
    /\ IdleMap
    /\ IdleBox
    /\ IdleHash
    /\ IdleList

\* Test 1: for (int i = 0; i < 20; i++) int64SetInsert(set, i)
DemoInsert ==
    /\ pc < ScenarioKeys
    /\ InsertCall(pc, TRUE)
    /\ pc' = pc + 1
    /\ UNCHANGED notSetVars

\* Test 3: int64SetContains(set, i) for i in 0..24
DemoContains(k) == ContainsCall(k) /\ UNCHANGED <<pc, notSetVars>>

NextD ==
    \/ DemoInsert
    \/ \E k \in 0 .. (ScenarioProbes - 1) : DemoContains(k)

SpecD == InitD /\ [][NextD]_vars

(***************************************************************************)
(* Properties of the hash set.                                             *)
(***************************************************************************)
ContainedKeys(s, universe) == {k \in universe : int64SetContains(s, k)}

\* C1: Int64Set behaves as a mathematical set.  With every allocation
\* succeeding, insert(k) returns true exactly when k is not a member,
\* remove(k) returns true exactly when k is a member, contains(k) returns
\* membership, and int64SetSize is the number of members.
C1_BehavesAsSet ==
    [][ last'.allocOk =>
          /\ last'.op = "insert" => last'.ret = (last'.key \notin members)
          /\ last'.op = "remove" => last'.ret = (last'.key \in members)
          /\ last'.op = "contains" => last'.ret = (last'.key \in members)
          /\ int64SetSize(set') = Cardinality(members') ]_vars

\* the slots on the probe path of slot i's key, from its home index up to
\* but not including slot i
ProbePath(s, i) ==
    LET index == HomeIndex(s.slots[i].key, s.capacity)
        dist == (i + s.capacity - index) % s.capacity
    IN  {(index + j) % s.capacity : j \in 0 .. (dist - 1)}

NoDuplicateKey(s) ==
    \A i, j \in DOMAIN s.slots :
        (/\ s.slots[i].state = OCCUPIED
         /\ s.slots[j].state = OCCUPIED
         /\ s.slots[i].key = s.slots[j].key) => i = j

ProbeReachable(s) ==
    \A i \in DOMAIN s.slots :
        s.slots[i].state = OCCUPIED =>
            \A p \in ProbePath(s, i) : s.slots[p].state # EMPTY

\* C2: in every reachable state no key is stored in more than one OCCUPIED
\* slot, and every stored key is reachable by linear probing from its home
\* index without crossing an EMPTY slot.
C2_OneSlotPerKey == NoDuplicateKey(set) /\ ProbeReachable(set)

\* C3: after int64SetRemove(k) returns true, int64SetContains(k) is false
\* until k is inserted again, and every other contained key stays contained.
C3_RemovedStaysAbsent ==
    [][ /\ (last'.op = "remove" /\ last'.ret) =>
              /\ ~int64SetContains(set', last'.key)
              /\ \A j \in Keys \ {last'.key} :
                    int64SetContains(set, j) => int64SetContains(set', j)
        /\ \A k \in Keys :
              (~int64SetContains(set, k) /\ ~(last'.op = "insert" /\ last'.key = k))
                  => ~int64SetContains(set', k) ]_vars

\* C4: set idempotence.  When k is not contained, int64SetInsert(k) returns
\* true and adds one to size; an immediately following int64SetInsert(k)
\* returns false and leaves size alone, also when either call resizes.
C4_Idempotence ==
    [][ (last'.op = "insert" /\ last'.allocOk) =>
          /\ ~int64SetContains(set, last'.key) =>
                (last'.ret /\ set'.size = set.size + 1)
          /\ (last.op = "insert" /\ last.ret /\ last.key = last'.key) =>
                (~last'.ret /\ set'.size = set.size) ]_vars

\* a duplicate insert that resized the table and reported already-present
C4_Witness ==
    /\ last.op = "insert" /\ last.allocOk /\ last.resized /\ ~last.ret
    /\ int64SetContains(set, last.key)

\* C5: tombstone correctness.  After inserting distinct keys, removing one
\* of them and inserting it again, int64SetContains is true for every
\* inserted key, the re-inserted one included.
C5_TombstoneCorrectness ==
    pc = "reinserted" =>
        /\ \A k \in members : int64SetContains(set, k)
        /\ (last.op = "contains" /\ last.key \in members) => last.ret

\* membership of a colliding key was queried after the re-insertion, in a
\* table that was resized along the way
C5_Witness ==
    /\ pc = "reinserted"
    /\ last.op = "contains" /\ last.ret
    /\ Cardinality(members) >= 3
    /\ set.capacity = 6
    /\ \E k \in members \ {last.key} :
          HomeIndex(k, set.capacity) = HomeIndex(last.key, set.capacity)

\* C6: scenario D.  Capacity 10, load factor 0.75, keys 0..19 inserted in
\* order: every insert returns true, every resize doubles the capacity, and
\* after the 20 inserts the capacity is above 10, size is 20 and
\* int64SetContains is true for all 20 keys.
C6_ScenarioD ==
    [][ /\ last'.op = "insert" => last'.ret
        /\ set'.capacity \in {set.capacity, 2 * set.capacity}
        /\ last'.resized = (set'.capacity # set.capacity)
        /\ pc' = ScenarioKeys =>
              /\ set'.capacity > ScenarioCapacity
              /\ int64SetSize(set') = ScenarioKeys
              /\ \A k \in 0 .. (ScenarioKeys - 1) : int64SetContains(set', k)
              /\ (last'.op = "contains" /\ last'.key < ScenarioKeys) => last'.ret ]_vars

\* all 20 keys are in, the table has grown, and key 19 was just found
C6_Witness ==
    /\ pc = ScenarioKeys
    /\ set.capacity = 4 * ScenarioCapacity
    /\ last.op = "contains" /\ last.key = ScenarioKeys - 1 /\ last.ret

\* C7: per-slot state machine.  Unless the call resizes the table, a slot
\* only moves EMPTY -> OCCUPIED, OCCUPIED -> DELETED or DELETED -> OCCUPIED;
\* a slot that has left EMPTY is never EMPTY again.
C7_SlotStateMachine ==
    [][ ~last'.resized =>
          /\ DOMAIN set'.slots = DOMAIN set.slots
          /\ \A i \in DOMAIN set.slots :
                \/ set'.slots[i].state = set.slots[i].state
                \/ /\ last'.op = "insert"
                   /\ set.slots[i].state \in {EMPTY, DELETED}
                   /\ set'.slots[i].state = OCCUPIED
                \/ /\ last'.op = "remove"
                   /\ set.slots[i].state = OCCUPIED
                   /\ set'.slots[i].state = DELETED ]_vars

\* a key was just removed and left a tombstone next to a live key
C7_Witness ==
    /\ last.op = "remove" /\ last.ret
    /\ NumDeleted(set) >= 1
    /\ NumOccupied(set) >= 1

\* C8: a resize triggered by an insert doubles the capacity, leaves size and
\* the contained keys unchanged, and yields a slot array without DELETED
\* slots whose number of OCCUPIED slots is the number before the resize.
C8_ResizeFrame ==
    [][ last'.resized =>
          LET r == int64SetResize(set, set.capacity * 2, TRUE).set
          IN  /\ NeedsResize(set)
              /\ r.capacity = 2 * set.capacity
              /\ DOMAIN r.slots = 0 .. (r.capacity - 1)
              /\ set'.capacity = r.capacity
              /\ r.size = set.size
              /\ ContainedKeys(r, Keys) = ContainedKeys(set, Keys)
              /\ NumDeleted(r) = 0
              /\ NumOccupied(r) = NumOccupied(set)
              /\ NumDeleted(set') = 0 ]_vars

\* an insert has just resized a table that held tombstones
C8_Witness ==
    /\ last.op = "insert" /\ last.resized
    /\ last.dropped >= 1
    /\ NumOccupied(set) >= 2

(***************************************************************************)
(* Part 2: the separate-chaining hash maps.  Int64Hashmap maps int64_t to  *)
(* void *, Int64Int64Hashmap maps int64_t to int64_t.  A bucket's chain is *)
(* the sequence of its entries from the head on.                           *)
(***************************************************************************)
INITIAL_INT64_HASHMAP_CAPACITY == 16
INITIAL_INT64_INT64_HASHMAP_CAPACITY == 16

MapKinds == {"Int64Hashmap", "Int64Int64Hashmap"}
MapKeys == {-1, 1, 17}           \* keys of the calls; all three share bucket 1 of 16
FirstFill == 2                   \* main: for (int64_t i = 2; ...)
FillKeys == FirstFill .. (FirstFill + MaxFill - 1)
Values == {100, 1700}            \* value argument of upsert
\* no association: the output parameter is left as the caller set it (NULL in
\* main of int64Hashmap.c); no upserted value is 0
NotFound == 0

\* unsigned int hashInt64(int64_t key, int capacity)
hashInt64(key, capacity) == (IF key < 0 THEN -key ELSE key) % capacity

\* a load check that leaves out the entry about to be added
OverLoad_CurrentSize(m) == 4 * m.size > 3 * m.capacity

\* (float)(map->size + 1) / map->capacity > LOAD_FACTOR_THRESHOLD, with
\* LOAD_FACTOR_THRESHOLD 0.75: the quotient of two small ints is far from
\* 0.75 by more than a float rounding unless it equals it
OverLoad(m) == 4 * (m.size + 1) > 3 * m.capacity

EmptyBuckets(capacity) == [i \in 0 .. (capacity - 1) |-> <<>>]

\* a lookup that takes the head of the bucket for the key
ChainIndex_FirstEntry(chain, key) == IF Len(chain) > 0 THEN 1 ELSE 0

\* index of the first entry of the chain with the key, 0 when there is none
ChainIndex(chain, key) ==
    IF \E i \in 1 .. Len(chain) : chain[i].key = key
    THEN Min({i \in 1 .. Len(chain) : chain[i].key = key})
    ELSE 0

\* the chain without its i-th entry
Unlink(chain, i) == SubSeq(chain, 1, i - 1) \o SubSeq(chain, i + 1, Len(chain))

\* a rehash that stores each entry as the whole new bucket
RECURSIVE RehashChain_Overwrites(_, _, _, _)
RehashChain_Overwrites(chain, j, newBuckets, newCapacity) ==
    IF j > Len(chain) THEN newBuckets
    ELSE RehashChain_Overwrites(chain, j + 1,
                     [newBuckets EXCEPT ![hashInt64(chain[j].key, newCapacity)] =
                                            <<chain[j]>>],
                     newCapacity)

\* the while loop of resize over one chain, from entry j on: each entry is
\* pushed on the head of its new bucket
RECURSIVE RehashChain(_, _, _, _)
RehashChain(chain, j, newBuckets, newCapacity) ==
    IF j > Len(chain) THEN newBuckets
    ELSE RehashChain(chain, j + 1,
                     [newBuckets EXCEPT ![hashInt64(chain[j].key, newCapacity)] =
                                            <<chain[j]>> \o @],
                     newCapacity)

\* a resize that leaves every chain at the index it had
RehashBuckets_SameIndex(i, oldBuckets, oldCapacity, newBuckets, newCapacity) ==
    [j \in DOMAIN newBuckets |-> IF j < oldCapacity THEN oldBuckets[j] ELSE newBuckets[j]]

\* the for loop of resize over the old buckets, from bucket i on
RECURSIVE RehashBuckets(_, _, _, _, _)
RehashBuckets(i, oldBuckets, oldCapacity, newBuckets, newCapacity) ==
    IF i >= oldCapacity THEN newBuckets
    ELSE RehashBuckets(i + 1, oldBuckets, oldCapacity,
                       RehashChain(oldBuckets[i], 1, newBuckets, newCapacity),
                       newCapacity)

(***************************************************************************)
(* src/src/int64Hashmap.c                                                  *)
(***************************************************************************)
createInt64Hashmap ==
    [capacity |-> INITIAL_INT64_HASHMAP_CAPACITY, size |-> 0,
     buckets |-> EmptyBuckets(INITIAL_INT64_HASHMAP_CAPACITY)]

\* allocOk: whether calloc of the new bucket array succeeds
resizeInt64Hashmap(m, allocOk) ==
    IF ~allocOk THEN [ok |-> FALSE, map |-> m]
    ELSE [ok |-> TRUE,
          map |-> [m EXCEPT
                     !.buckets = RehashBuckets(0, m.buckets, m.capacity,
                                               EmptyBuckets(m.capacity * 2),
                                               m.capacity * 2),
                     !.capacity = m.capacity * 2]]

\* PutInt64Hashmap without the scan of the chain for the key
PutInt64Hashmap_NoScan(m, key, value, allocEntry) ==
    IF ~allocEntry THEN [map |-> m, ret |-> FALSE]
    ELSE [map |-> [m EXCEPT !.buckets[hashInt64(key, m.capacity)] =
                                <<[key |-> key, value |-> value]>> \o @,
                            !.size = m.size + 1],
          ret |-> TRUE]

\* upsertInt64Hashmap after the load check; allocEntry: whether calloc of
\* the new entry succeeds
PutInt64Hashmap(m, key, value, allocEntry) ==
    IF ChainIndex(m.buckets[hashInt64(key, m.capacity)], key) # 0
    THEN [map |-> [m EXCEPT !.buckets[hashInt64(key, m.capacity)]
                                     [ChainIndex(m.buckets[hashInt64(key, m.capacity)], key)]
                                     .value = value],
          ret |-> TRUE]
    ELSE IF ~allocEntry THEN [map |-> m, ret |-> FALSE]
    ELSE [map |-> [m EXCEPT !.buckets[hashInt64(key, m.capacity)] =
                                <<[key |-> key, value |-> value]>> \o @,
                            !.size = m.size + 1],
          ret |-> TRUE]

upsertInt64Hashmap(m, key, value, allocBuckets, allocEntry) ==
    IF OverLoad(m)
    THEN IF ~resizeInt64Hashmap(m, allocBuckets).ok
         THEN [map |-> m, ret |-> FALSE]
         ELSE PutInt64Hashmap(resizeInt64Hashmap(m, allocBuckets).map,
                              key, value, allocEntry)
    ELSE PutInt64Hashmap(m, key, value, allocEntry)

getInt64Hashmap(m, key) ==
    IF ChainIndex(m.buckets[hashInt64(key, m.capacity)], key) # 0
    THEN [ret |-> TRUE,
          value |-> m.buckets[hashInt64(key, m.capacity)]
                        [ChainIndex(m.buckets[hashInt64(key, m.capacity)], key)].value]
    ELSE [ret |-> FALSE, value |-> NotFound]

removeInt64Hashmap(m, key) ==
    IF ChainIndex(m.buckets[hashInt64(key, m.capacity)], key) # 0
    THEN [map |-> [m EXCEPT !.buckets[hashInt64(key, m.capacity)] =
                                Unlink(@, ChainIndex(@, key)),
                            !.size = m.size - 1],
          ret |-> TRUE]
    ELSE [map |-> m, ret |-> FALSE]

(***************************************************************************)
(* src/src/int64int64Hashmap.c                                             *)
(***************************************************************************)
createInt64Int64Hashmap ==
    [capacity |-> INITIAL_INT64_INT64_HASHMAP_CAPACITY, size |-> 0,
     buckets |-> EmptyBuckets(INITIAL_INT64_INT64_HASHMAP_CAPACITY)]

resizeInt64Int64Hashmap(m, allocOk) ==
    IF ~allocOk THEN [ok |-> FALSE, map |-> m]
    ELSE [ok |-> TRUE,
          map |-> [m EXCEPT
                     !.buckets = RehashBuckets(0, m.buckets, m.capacity,
                                               EmptyBuckets(m.capacity * 2),
                                               m.capacity * 2),
                     !.capacity = m.capacity * 2]]

PutInt64Int64Hashmap(m, key, value, allocEntry) ==
    IF ChainIndex(m.buckets[hashInt64(key, m.capacity)], key) # 0
    THEN [map |-> [m EXCEPT !.buckets[hashInt64(key, m.capacity)]
                                     [ChainIndex(m.buckets[hashInt64(key, m.capacity)], key)]
                                     .value = value],
          ret |-> TRUE]
    ELSE IF ~allocEntry THEN [map |-> m, ret |-> FALSE]
    ELSE [map |-> [m EXCEPT !.buckets[hashInt64(key, m.capacity)] =
                                <<[key |-> key, value |-> value]>> \o @,
                            !.size = m.size + 1],
          ret |-> TRUE]

upsertInt64Int64Hashmap(m, key, value, allocBuckets, allocEntry) ==
    IF OverLoad(m)
    THEN IF ~resizeInt64Int64Hashmap(m, allocBuckets).ok
         THEN [map |-> m, ret |-> FALSE]
         ELSE PutInt64Int64Hashmap(resizeInt64Int64Hashmap(m, allocBuckets).map,
                                   key, value, allocEntry)
    ELSE PutInt64Int64Hashmap(m, key, value, allocEntry)

\* getInt64Int64Hashmap that returns the head of the bucket without
\* comparing its key
getInt64Int64Hashmap_HeadOnly(m, key) ==
    IF Len(m.buckets[hashInt64(key, m.capacity)]) > 0
    THEN [ret |-> TRUE, value |-> m.buckets[hashInt64(key, m.capacity)][1].value]
    ELSE [ret |-> FALSE, value |-> NotFound]

getInt64Int64Hashmap(m, key) ==
    IF ChainIndex(m.buckets[hashInt64(key, m.capacity)], key) # 0
    THEN [ret |-> TRUE,
          value |-> m.buckets[hashInt64(key, m.capacity)]
                        [ChainIndex(m.buckets[hashInt64(key, m.capacity)], key)].value]
    ELSE [ret |-> FALSE, value |-> NotFound]

removeInt64Int64Hashmap(m, key) ==
    IF ChainIndex(m.buckets[hashInt64(key, m.capacity)], key) # 0
    THEN [map |-> [m EXCEPT !.buckets[hashInt64(key, m.capacity)] =
                                Unlink(@, ChainIndex(@, key)),
                            !.size = m.size - 1],
          ret |-> TRUE]
    ELSE [map |-> m, ret |-> FALSE]

(***************************************************************************)
(* SpecMap: any sequence of upsert / get / remove calls with the keys of   *)
(* MapKeys, interleaved with the resizing loop of main, which upserts the  *)
(* keys 2, 3, ... in order.                                                *)
(***************************************************************************)
MapCreate(k) ==
    IF k = "Int64Hashmap" THEN createInt64Hashmap ELSE createInt64Int64Hashmap

MapUpsert(m, key, value, allocBuckets, allocEntry) ==
    IF kind = "Int64Hashmap"
    THEN upsertInt64Hashmap(m, key, value, allocBuckets, allocEntry)
    ELSE upsertInt64Int64Hashmap(m, key, value, allocBuckets, allocEntry)

MapGet(m, key) ==
    IF kind = "Int64Hashmap" THEN getInt64Hashmap(m, key)
    ELSE getInt64Int64Hashmap(m, key)

MapRemove(m, key) ==
    IF kind = "Int64Hashmap" THEN removeInt64Hashmap(m, key)
    ELSE removeInt64Int64Hashmap(m, key)

\* the hash set while the hashmap is driven
IdleSet ==
    /\ set = [slots |-> <<>>, size |-> 0, capacity |-> 0,
              loadFactor |-> [num |-> 0, den |-> 1]]
    /\ members = {}
    /\ last = NoCall
    /\ pc = 0

InitMap ==
    /\ kind \in MapKinds
    /\ map = MapCreate(kind)
    /\ mref = [k \in MapKeys \cup FillKeys |-> NotFound]
    /\ mlast = [op |-> "create", key |-> 0, value |-> NotFound, ret |-> TRUE,
                resized |-> FALSE]
    /\ filled = 0
    /\ IdleSet
    /\ IdleBox
    /\ IdleHash
    /\ IdleList

UpsertCall(k, v, allocBuckets, allocEntry) ==
    /\ map' = MapUpsert(map, k, v, allocBuckets, allocEntry).map
    /\ mlast' = [op |-> "upsert", key |-> k, value |-> v,
                 ret |-> MapUpsert(map, k, v, allocBuckets, allocEntry).ret,
                 resized |-> OverLoad(map) /\ allocBuckets]
    /\ mref' = IF MapUpsert(map, k, v, allocBuckets, allocEntry).ret
               THEN [mref EXCEPT ![k] = v] ELSE mref

Upsert(k, v, allocBuckets, allocEntry) ==
    /\ UpsertCall(k, v, allocBuckets, allocEntry)
    /\ UNCHANGED <<kind, filled, pc, notMapVars>>

\* the next key of the resizing loop of main
Fill ==
    /\ filled < MaxFill
    /\ UpsertCall(FirstFill + filled, 100 * (FirstFill + filled), TRUE, TRUE)
    /\ filled' = filled + 1
    /\ UNCHANGED <<kind, pc, notMapVars>>

Get(k) ==
    /\ mlast' = [op |-> "get", key |-> k, value |-> MapGet(map, k).value,
                 ret |-> MapGet(map, k).ret, resized |-> FALSE]
    /\ UNCHANGED <<map, mref, kind, filled, pc, notMapVars>>

MapRemoveCall(k) ==
    /\ map' = MapRemove(map, k).map
    /\ mlast' = [op |-> "remove", key |-> k, value |-> NotFound,
                 ret |-> MapRemove(map, k).ret, resized |-> FALSE]
    /\ mref' = [mref EXCEPT ![k] = NotFound]
    /\ UNCHANGED <<kind, filled, pc, notMapVars>>

NextMap ==
    \/ \E k \in MapKeys, v \in Values, allocBuckets \in BOOLEAN, allocEntry \in BOOLEAN :
          Upsert(k, v, allocBuckets, allocEntry)
    \/ Fill
    \/ \E k \in MapKeys : Get(k)
    \/ \E k \in MapKeys : MapRemoveCall(k)

SpecMap == InitMap /\ [][NextMap]_vars

(***************************************************************************)
(* Properties of the hash maps.                                            *)
(***************************************************************************)
\* C9: map round-trip.  A successful upsert(k, v) followed by get(k) yields
\* v, and a remove(k) that returns true followed by get(k) yields
\* not-found, also when the upsert resizes the map.
C9_MapRoundTrip ==
    [][ /\ (mlast'.op = "upsert" /\ mlast'.ret) =>
              MapGet(map', mlast'.key) = [ret |-> TRUE, value |-> mlast'.value]
        /\ (mlast'.op = "remove" /\ mlast'.ret) =>
              MapGet(map', mlast'.key) = [ret |-> FALSE, value |-> NotFound]
        /\ (mlast'.op = "get" /\ mlast'.key = mlast.key /\ mlast.ret) =>
              /\ mlast.op = "upsert" => (mlast'.ret /\ mlast'.value = mlast.value)
              /\ mlast.op = "remove" => (~mlast'.ret /\ mlast'.value = NotFound) ]_vars

\* an upsert has just resized the map and stored its key in a bucket that
\* holds another key as well
C9_Witness ==
    /\ mlast.op = "upsert" /\ mlast.resized /\ mlast.ret
    /\ map.capacity = 2 * INITIAL_INT64_HASHMAP_CAPACITY
    /\ mlast.key \in MapKeys
    /\ Len(map.buckets[hashInt64(mlast.key, map.capacity)]) >= 2
    /\ MapGet(map, mlast.key).value = mlast.value

RECURSIVE EntryCount(_, _)
EntryCount(m, i) ==
    IF i >= m.capacity THEN 0 ELSE Len(m.buckets[i]) + EntryCount(m, i + 1)

OneEntryPerKey(m) ==
    \A i, j \in DOMAIN m.buckets :
        \A a \in 1 .. Len(m.buckets[i]), b \in 1 .. Len(m.buckets[j]) :
            m.buckets[i][a].key = m.buckets[j][b].key => (i = j /\ a = b)

\* C10: in every reachable state each key has at most one entry across all
\* buckets and the size field is the total number of entries in the chains.
C10_MapInvariant ==
    kind \in MapKinds => (OneEntryPerKey(map) /\ map.size = EntryCount(map, 0))

\* a key was just removed from a resized map that still holds a collision
C10_Witness ==
    /\ mlast.op = "remove" /\ mlast.ret
    /\ map.capacity = 2 * INITIAL_INT64_HASHMAP_CAPACITY
    /\ map.size >= 12
    /\ \E i \in DOMAIN map.buckets : Len(map.buckets[i]) >= 2

(***************************************************************************)
(* The collision demonstration of main (both hashmap files): keys 1, 17    *)
(* and 33 share bucket 1 at capacity 16, and so do a key and its           *)
(* negation.  The map stays below the load threshold.                      *)
(***************************************************************************)
CollisionKeys == {1, 17, 33, -1}

InitB ==
    /\ kind \in MapKinds
    /\ map = MapCreate(kind)
    /\ mref = [k \in CollisionKeys |-> NotFound]
    /\ mlast = [op |-> "create", key |-> 0, value |-> NotFound, ret |-> TRUE,
                resized |-> FALSE]
    /\ filled = 0
    /\ IdleSet
    /\ IdleBox
    /\ IdleHash
    /\ IdleList

NextB ==
    \/ \E k \in CollisionKeys, v \in Values : Upsert(k, v, TRUE, TRUE)
    \/ \E k \in CollisionKeys : Get(k)
    \/ \E k \in CollisionKeys : MapRemoveCall(k)

SpecB == InitB /\ [][NextB]_vars

\* number of entries of the chain that carry the key
KeyCount(chain, key) == Cardinality({i \in 1 .. Len(chain) : chain[i].key = key})

\* C11: collision handling.  Keys that hash to the same bucket (1, 17 and
\* 33 at capacity 16, and a key k with -k) are stored as separate entries
\* of that bucket, and get returns for each of them the value last upserted
\* for that key.
C11_CollisionHandling ==
    /\ \A k \in CollisionKeys : hashInt64(k, map.capacity) = hashInt64(1, map.capacity)
    /\ \A k \in CollisionKeys :
          /\ MapGet(map, k) = [ret |-> mref[k] # NotFound, value |-> mref[k]]
          /\ KeyCount(map.buckets[hashInt64(k, map.capacity)], k) =
                 (IF mref[k] # NotFound THEN 1 ELSE 0)
    /\ mlast.op = "get" => (mlast.value = mref[mlast.key]
                             /\ mlast.ret = (mref[mlast.key] # NotFound))

\* the four colliding keys are in one bucket, key 17 was just read and its
\* value differs from the value of the entry at the head of the bucket
C11_Witness ==
    /\ mlast.op = "get" /\ mlast.key = 17 /\ mlast.ret
    /\ Len(map.buckets[1]) = 4
    /\ map.buckets[1][1].key # 17
    /\ map.buckets[1][1].value # mlast.value
    /\ mref[1] # NotFound /\ mref[33] # NotFound /\ mref[-1] # NotFound

\* C12: an upsert of a key already in the map overwrites its value and
\* leaves the size alone; upsert(k, ...) and remove(k) do not change what
\* get returns for any other key, also when the upsert resizes and rehashes
\* the map.
C12_OverwriteAndFrame ==
    [][ /\ (mlast'.op = "upsert" /\ mlast'.ret /\ MapGet(map, mlast'.key).ret) =>
              /\ map'.size = map.size
              /\ MapGet(map', mlast'.key).value = mlast'.value
        /\ mlast'.op \in {"upsert", "remove"} =>
              \A k \in (MapKeys \cup FillKeys) \ {mlast'.key} :
                  MapGet(map', k) = MapGet(map, k) ]_vars

\* an upsert overwrote a key of a full map and resized it on the way: twelve
\* entries in thirty-two buckets
C12_Witness ==
    /\ mlast.op = "upsert" /\ mlast.ret /\ mlast.resized
    /\ map.size = 12 /\ map.capacity = 32
    /\ \E k \in MapKeys \ {mlast.key} : mref[k] # NotFound

(***************************************************************************)
(* Growth of a hashmap: distinct keys are upserted into the fresh map;     *)
(* pc tells whether that is still all that happened ("distinct") or        *)
(* whether a key was removed or upserted again, or an upsert failed        *)
(* ("mixed").                                                              *)
(***************************************************************************)
InitGrow ==
    /\ kind \in MapKinds
    /\ map = MapCreate(kind)
    /\ mref = [k \in MapKeys \cup FillKeys |-> NotFound]
    /\ mlast = [op |-> "create", key |-> 0, value |-> NotFound, ret |-> TRUE,
                resized |-> FALSE]
    /\ filled = 0
    /\ set = [slots |-> <<>>, size |-> 0, capacity |-> 0,
              loadFactor |-> [num |-> 0, den |-> 1]]
    /\ members = {}
    /\ last = NoCall
    /\ pc = "distinct"
    /\ IdleBox
    /\ IdleHash
    /\ IdleList

GrowUpsert(k, v, allocBuckets, allocEntry) ==
    /\ UpsertCall(k, v, allocBuckets, allocEntry)
    /\ pc' = IF mref[k] = NotFound /\ MapUpsert(map, k, v, allocBuckets, allocEntry).ret
             THEN pc ELSE "mixed"
    /\ UNCHANGED <<kind, filled, notMapVars>>

GrowFill ==
    /\ filled < MaxFill
    /\ UpsertCall(FirstFill + filled, 100 * (FirstFill + filled), TRUE, TRUE)
    /\ filled' = filled + 1
    /\ UNCHANGED <<kind, pc, notMapVars>>

GrowGet(k) ==
    /\ mlast' = [op |-> "get", key |-> k, value |-> MapGet(map, k).value,
                 ret |-> MapGet(map, k).ret, resized |-> FALSE]
    /\ UNCHANGED <<map, mref, kind, filled, pc, notMapVars>>

GrowRemove(k) ==
    /\ map' = MapRemove(map, k).map
    /\ mlast' = [op |-> "remove", key |-> k, value |-> NotFound,
                 ret |-> MapRemove(map, k).ret, resized |-> FALSE]
    /\ mref' = [mref EXCEPT ![k] = NotFound]
    /\ pc' = "mixed"
    /\ UNCHANGED <<kind, filled, notMapVars>>

NextGrow ==
    \/ \E k \in MapKeys, allocBuckets \in BOOLEAN, allocEntry \in BOOLEAN :
          GrowUpsert(k, 100 * k, allocBuckets, allocEntry)
    \/ GrowFill
    \/ \E k \in MapKeys : GrowGet(k)
    \/ \E k \in MapKeys : GrowRemove(k)

SpecGrow == InitGrow /\ [][NextGrow]_vars

\* C13: a hashmap starts with capacity 16; an upsert doubles the number of
\* buckets exactly when (size + 1) / capacity > 0.75 at the time of the call
\* (a failed allocation aside, which leaves the capacity and returns false);
\* after n distinct keys were upserted into a fresh map the capacity is the
\* smallest 16 * 2^j with n <= 0.75 * 16 * 2^j, so 12 keys leave it at 16
\* and the 13th makes it 32; get and remove never change the capacity.
C13_GrowthPolicy ==
    [][ /\ mlast.op = "create" => (map.capacity = 16 /\ map.size = 0)
        /\ mlast'.op = "upsert" =>
              /\ map'.capacity \in {map.capacity, 2 * map.capacity}
              /\ map'.capacity = 2 * map.capacity => 4 * (map.size + 1) > 3 * map.capacity
              /\ (4 * (map.size + 1) > 3 * map.capacity /\ mlast'.ret) =>
                     map'.capacity = 2 * map.capacity
        /\ mlast'.op \in {"get", "remove"} => map'.capacity = map.capacity
        /\ pc' = "distinct" =>
              /\ 4 * map'.size <= 3 * map'.capacity
              /\ map'.capacity = 16 \/ 4 * map'.size > 3 * (map'.capacity \div 2)
              /\ map'.size <= 12 => map'.capacity = 16
              /\ map'.size = 13 => map'.capacity = 32 ]_vars

\* the thirteenth distinct key has just been upserted into a fresh map and
\* doubled it
C13_Witness ==
    /\ pc = "distinct"
    /\ mlast.op = "upsert" /\ mlast.ret /\ mlast.resized
    /\ map.size = 13 /\ map.capacity = 32

\* C14: whenever an upsert returns false because an allocation failed (the
\* new bucket array or the new entry), the size, the capacity and every
\* association of the map are what they were before the call.
C14_UpsertAllocAtomic ==
    [][ (mlast'.op = "upsert" /\ ~mlast'.ret) =>
            /\ map'.size = map.size
            /\ map'.capacity = map.capacity
            /\ \A k \in MapKeys \cup FillKeys : MapGet(map', k) = MapGet(map, k) ]_vars

(***************************************************************************)
(* hashInt64 on the full width of int64_t.  The key is the 8 bytes of its  *)
(* two's complement representation, least significant byte first.          *)
(***************************************************************************)
INT64_MIN == <<0, 0, 0, 0, 0, 0, 0, 128>>

INT64_MAX == <<255, 255, 255, 255, 255, 255, 255, 127>>

\* key < 0
IsNegative(x) == x[8] >= 128

\* x + 1 modulo 2^64, the carry entering at byte i
RECURSIVE Increment(_, _)
Increment(x, i) ==
    IF i > 8 THEN x
    ELSE IF x[i] = 255 THEN Increment([x EXCEPT ![i] = 0], i + 1)
    ELSE [x EXCEPT ![i] = x[i] + 1]

\* -key modulo 2^64; INT64_MIN is its own negation
Negate(x) == Increment([i \in 1..8 |-> 255 - x[i]], 1)

\* key % capacity of C for an int64_t key and a positive capacity: the
\* remainder has the sign of the key
SignedRemainder(x, capacity) ==
    IF IsNegative(x) THEN 0 - Mod(Negate(x), capacity) ELSE Mod(x, capacity)

\* a hash that takes the remainder of the key as it is
hashInt64Wide_NoFold(x, capacity) == SignedRemainder(x, capacity)

\* unsigned int hashInt64(int64_t key, int capacity), the negation wrapping
\* modulo 2^64.  A negative result stands for the unsigned int 2^32 minus its
\* magnitude, which is past every bucket array.
hashInt64Wide(x, capacity) ==
    SignedRemainder(IF IsNegative(x) THEN Negate(x) ELSE x, capacity)

\* key arguments: the extremes of int64_t and keys of the hashmap demos
WideKeys ==
    {INT64_MIN, INT64_MAX, Negate(INT64_MAX)}
    \cup {ToU64(k) : k \in {-33, -17, -1, 0, 1, 17, 33, -2147483647}}

\* what key = -key does on INT64_MIN, a signed overflow: the value wraps, or
\* the process traps (-ftrapv, sanitizers)
OverflowOutcomes == {"wrap", "trap"}

InitHash ==
    /\ hcall \in [key : WideKeys, capacity : {INITIAL_INT64_HASHMAP_CAPACITY},
                  index : {0}, at : {"called"}]
    /\ IdleSet
    /\ IdleMap
    /\ IdleBox
    /\ IdleList

\* the call returns its index, or traps on the overflow
HashReturn(overflow) ==
    /\ hcall.at = "called"
    /\ hcall' = IF hcall.key = INT64_MIN /\ overflow = "trap"
                THEN [hcall EXCEPT !.at = "trapped"]
                ELSE [hcall EXCEPT !.at = "returned",
                                   !.index = hashInt64Wide(hcall.key, hcall.capacity)]
    /\ UNCHANGED notHashVars

\* the same key is hashed again after a resize has doubled the capacity
HashAfterResize ==
    /\ hcall.at = "returned"
    /\ hcall.capacity < INITIAL_INT64_HASHMAP_CAPACITY * Pow2(MaxDoublings)
    /\ hcall' = [hcall EXCEPT !.at = "called", !.capacity = 2 * hcall.capacity,
                              !.index = 0]
    /\ UNCHANGED notHashVars

NextHash ==
    \/ \E overflow \in OverflowOutcomes : HashReturn(overflow)
    \/ HashAfterResize

SpecHash == InitHash /\ [][NextHash]_vars

\* C15: for every int64 key, negative keys and INT64_MIN included (the
\* negation taken modulo 2^64), and every capacity 16 * 2^j a map can reach,
\* hashInt64(key, capacity) is a bucket index in [0, capacity); on the keys
\* of the map specifications it is the hashInt64 those use.
C15_HashInRange ==
    /\ hcall.at = "returned" => (hcall.index >= 0 /\ hcall.index < hcall.capacity)
    /\ \A k \in MapKeys \cup CollisionKeys \cup FillKeys :
          /\ hashInt64Wide(ToU64(k), hcall.capacity) = hashInt64(k, hcall.capacity)
          /\ hashInt64(k, hcall.capacity) \in 0 .. (hcall.capacity - 1)

\* INT64_MIN was hashed at capacity 32 after a resize and fell in bucket 0
C15_Witness ==
    /\ hcall.at = "returned" /\ hcall.key = INT64_MIN
    /\ hcall.capacity = 2 * INITIAL_INT64_HASHMAP_CAPACITY
    /\ hcall.index = 0
    /\ IsNegative(Negate(hcall.key))

(***************************************************************************)
(* Part 3: the array-backed containers: IntegerDynamicArray,               *)
(* integerStack, StringStack, Int64MaxHeap and Int64PriorityQueue.         *)
(* box is the struct with the fields of its file; data is a function on    *)
(* 0 .. capacity-1.  Every operation yields the struct after the call,     *)
(* the returned bool, the value it hands out, how the call went wrong      *)
(* beyond its return value (fault) and whether the array was reallocated.  *)
(***************************************************************************)
BoxKinds == {"IntegerDynamicArray", "integerStack", "StringStack",
             "Int64MaxHeap", "Int64PriorityQueue"}

IntValues == {1, 2, 3}                \* int / int64_t arguments
StrValues == {"hello", "world"}       \* const char * arguments
InitBoxCapacities == {0, 1, 2}        \* capacity argument of the constructors

NoFault == "none"
PastStorage == "write past storage"   \* data[i] = ... with i >= capacity
DivisionByZero == "division by zero"  \* ... % capacity with capacity 0
Exited == "exit"                      \* exit(EXIT_FAILURE)

NullString == "NULL"                  \* the null char *
\* content of an int cell realloc has added: not initialised, never read
\* before it is written
FreshInt == -1
FreshString == "?"                    \* likewise for a char * cell

Result(b, ret, out, fault, grew) ==
    [box |-> b, ret |-> ret, out |-> out, fault |-> fault, grew |-> grew]

\* calloc(capacity, ...) that succeeds
Cells(capacity, zero) == [i \in 0 .. (capacity - 1) |-> zero]

\* a reallocation that hands out fresh storage without the old content
Realloc_NoCopy(data, oldCapacity, newCapacity, fresh) ==
    [i \in 0 .. (newCapacity - 1) |-> fresh]

\* realloc(data, newCapacity * ...) that succeeds
Realloc(data, oldCapacity, newCapacity, fresh) ==
    [i \in 0 .. (newCapacity - 1) |-> IF i < oldCapacity THEN data[i] ELSE fresh]

\* data[i] = v; a write past the storage changes no cell of the array
Store(data, capacity, i, v) == IF i < capacity THEN [data EXCEPT ![i] = v] ELSE data

StoreFault(capacity, i) == IF i < capacity THEN NoFault ELSE PastStorage

Swap(data, i, j) == [data EXCEPT ![i] = data[j], ![j] = data[i]]

(***************************************************************************)
(* src/IntegerDynamicArray.c: struct { data, size, capacity }              *)
(***************************************************************************)
initializeIntegerDynamicArray(initialCapacity, callocOk) ==
    [ret |-> callocOk,
     box |-> [data |-> Cells(initialCapacity, 0), size |-> 0,
              capacity |-> initialCapacity]]

\* a growth by one cell
appendGrow_ByOne(array) ==
    [array EXCEPT !.data = Realloc(array.data, array.capacity,
                                   array.capacity + 1, FreshInt),
                  !.capacity = array.capacity + 1]

\* the array after the realloc of append has succeeded
appendGrow(array) ==
    [array EXCEPT !.data = Realloc(array.data, array.capacity,
                                   array.capacity * 2, FreshInt),
                  !.capacity = array.capacity * 2]

\* array->data[array->size++] = value
appendStore(array, value, grew) ==
    Result([array EXCEPT !.data = Store(array.data, array.capacity, array.size, value),
                         !.size = array.size + 1],
           TRUE, 0, StoreFault(array.capacity, array.size), grew)

appendIntegerDynamicArray(array, value, reallocOk) ==
    IF array.size = array.capacity
    THEN IF reallocOk THEN appendStore(appendGrow(array), value, TRUE)
         ELSE Result(array, FALSE, 0, NoFault, FALSE)
    ELSE appendStore(array, value, FALSE)

\* out is *index, left as it was (0) when the value is not found
findIntegerDynamicArray(array, value) ==
    IF \E i \in 0 .. (array.size - 1) : array.data[i] = value
    THEN Result(array, TRUE,
                Min({i \in 0 .. (array.size - 1) : array.data[i] = value}),
                NoFault, FALSE)
    ELSE Result(array, FALSE, 0, NoFault, FALSE)

\* a delete that fills the gap with the last element instead of shifting
ShiftDown_MovesLast(array, index) ==
    [array.data EXCEPT ![index] = array.data[array.size - 1]]

\* the shifting loop of delete from index on
ShiftDown(array, index) ==
    [i \in DOMAIN array.data |->
        IF i >= index /\ i < array.size - 1 THEN array.data[i + 1] ELSE array.data[i]]

deleteIntegerDynamicArray(array, value) ==
    IF ~findIntegerDynamicArray(array, value).ret
    THEN Result(array, FALSE, 0, NoFault, FALSE)
    ELSE Result([array EXCEPT
                    !.data = ShiftDown(array, findIntegerDynamicArray(array, value).out),
                    !.size = array.size - 1],
                TRUE, 0, NoFault, FALSE)

(***************************************************************************)
(* src/src/integerStack.c: struct { data, size, top }; size is the         *)
(* capacity of the array.                                                  *)
(***************************************************************************)
initializeIntegerStack(initialCapacity, callocOk) ==
    [ret |-> callocOk,
     box |-> [data |-> Cells(initialCapacity, 0), size |-> initialCapacity, top |-> 0]]

isEmptyIntegerStack(stack) == stack.top = 0

isFullIntegerStack(stack) == stack.top = stack.size

\* stack->data[stack->top] = value; stack->top++
pushIntegerStore(stack, value, grew) ==
    Result([stack EXCEPT !.data = Store(stack.data, stack.size, stack.top, value),
                         !.top = stack.top + 1],
           TRUE, 0, StoreFault(stack.size, stack.top), grew)

\* a push that stores without making room
pushIntegerStack_NoGrowth(stack, value, reallocOk) ==
    pushIntegerStore(stack, value, FALSE)

pushIntegerStack(stack, value, reallocOk) ==
    IF isFullIntegerStack(stack)
    THEN IF reallocOk
         THEN pushIntegerStore(
                  [stack EXCEPT !.data = Realloc(stack.data, stack.size,
                                                 stack.size * 2, FreshInt),
                                !.size = stack.size * 2],
                  value, TRUE)
         ELSE Result(stack, FALSE, 0, NoFault, FALSE)
    ELSE pushIntegerStore(stack, value, FALSE)

\* a pop that hands out the oldest element
popIntegerStack_Bottom(stack) ==
    IF isEmptyIntegerStack(stack) THEN Result(stack, FALSE, 0, NoFault, FALSE)
    ELSE Result([stack EXCEPT !.top = stack.top - 1], TRUE, stack.data[0],
                NoFault, FALSE)

popIntegerStack(stack) ==
    IF isEmptyIntegerStack(stack) THEN Result(stack, FALSE, 0, NoFault, FALSE)
    ELSE Result([stack EXCEPT !.top = stack.top - 1], TRUE,
                stack.data[stack.top - 1], NoFault, FALSE)

peekIntegerStack(stack) ==
    IF isEmptyIntegerStack(stack) THEN Result(stack, FALSE, 0, NoFault, FALSE)
    ELSE Result(stack, TRUE, stack.data[stack.top - 1], NoFault, FALSE)

(***************************************************************************)
(* src/src/stringStack.c: struct { data, capacity, top }.  A cell holds    *)
(* the string its pointer points to.                                       *)
(***************************************************************************)
initializeStringStack(initialCapacity, callocOk) ==
    [ret |-> callocOk,
     box |-> [data |-> Cells(initialCapacity, NullString),
              capacity |-> initialCapacity, top |-> 0]]

isEmptyStringStack(stack) == stack.top = 0

isFullStringStack(stack) == stack.top = stack.capacity

\* stack->data[stack->top] = strdup(value) and what follows it
pushStringStore(stack, value, strdupOk, grew) ==
    IF strdupOk
    THEN Result([stack EXCEPT !.data = Store(stack.data, stack.capacity, stack.top, value),
                              !.top = stack.top + 1],
                TRUE, NullString, StoreFault(stack.capacity, stack.top), grew)
    ELSE Result([stack EXCEPT !.data = Store(stack.data, stack.capacity, stack.top,
                                             NullString)],
                FALSE, NullString, StoreFault(stack.capacity, stack.top), grew)

pushStringStack(stack, value, reallocOk, strdupOk) ==
    IF isFullStringStack(stack)
    THEN IF reallocOk
         THEN pushStringStore(
                  [stack EXCEPT !.data = Realloc(stack.data, stack.capacity,
                                                 stack.capacity * 2, FreshString),
                                !.capacity = stack.capacity * 2],
                  value, strdupOk, TRUE)
         ELSE Result(stack, FALSE, NullString, NoFault, FALSE)
    ELSE pushStringStore(stack, value, strdupOk, FALSE)

popStringStack(stack) ==
    IF isEmptyStringStack(stack) THEN Result(stack, FALSE, NullString, NoFault, FALSE)
    ELSE Result([stack EXCEPT !.top = stack.top - 1], TRUE,
                stack.data[stack.top - 1], NoFault, FALSE)

\* a peek that takes the element off the stack
peekStringStack_Pops(stack) ==
    IF isEmptyStringStack(stack) THEN Result(stack, FALSE, NullString, NoFault, FALSE)
    ELSE Result([stack EXCEPT !.top = stack.top - 1], TRUE,
                stack.data[stack.top - 1], NoFault, FALSE)

peekStringStack(stack) ==
    IF isEmptyStringStack(stack) THEN Result(stack, FALSE, NullString, NoFault, FALSE)
    ELSE Result(stack, TRUE, stack.data[stack.top - 1], NoFault, FALSE)

\* a destroy that frees every cell of the array, used or not
freeStringStack_WholeArray(stack) ==
    [box |-> [data |-> Cells(0, NullString), capacity |-> 0, top |-> 0],
     freed |-> [i \in 1 .. stack.capacity |-> stack.data[i - 1]]]

\* freed: the pointers handed to free() by the loop, in order
freeStringStack(stack) ==
    [box |-> [data |-> Cells(0, NullString), capacity |-> 0, top |-> 0],
     freed |-> [i \in 1 .. stack.top |-> stack.data[i - 1]]]

(***************************************************************************)
(* src/src/int64MaxHeap.c: struct { data, size, capacity }.  The index     *)
(* helpers and the two heapify loops of src/src/int64PriorityQueue.c are   *)
(* the same code under other names.                                        *)
(***************************************************************************)
heapParent(index) == (index - 1) \div 2

heapLeftChild(index) == 2 * index + 1

heapRightChild(index) == 2 * index + 2

\* a sift-up that stops after one level
heapifyUp_OneLevel(data, i) ==
    IF i > 0 /\ data[heapParent(i)] < data[i] THEN Swap(data, heapParent(i), i)
    ELSE data

\* while (i > 0) { if (data[parent] >= data[i]) break; swap; i = parent; }
RECURSIVE heapifyUp(_, _)
heapifyUp(data, i) ==
    IF i > 0 /\ data[heapParent(i)] < data[i]
    THEN heapifyUp(Swap(data, heapParent(i), i), heapParent(i))
    ELSE data

\* largest after the test of the left child
LargestLeft(data, size, i) ==
    IF heapLeftChild(i) < size /\ data[heapLeftChild(i)] > data[i]
    THEN heapLeftChild(i) ELSE i

\* a sift-down that never looks at the right child
Largest_LeftOnly(data, size, i) == LargestLeft(data, size, i)

\* largest after the test of the right child
Largest(data, size, i) ==
    IF heapRightChild(i) < size /\ data[heapRightChild(i)] > data[LargestLeft(data, size, i)]
    THEN heapRightChild(i) ELSE LargestLeft(data, size, i)

RECURSIVE heapifyDown(_, _, _)
heapifyDown(data, size, i) ==
    IF Largest(data, size, i) = i THEN data
    ELSE heapifyDown(Swap(data, i, Largest(data, size, i)), size, Largest(data, size, i))

int64MaxHeapCreate(capacity, callocOk) ==
    [ret |-> capacity # 0 /\ callocOk,
     box |-> [data |-> Cells(capacity, 0), size |-> 0, capacity |-> capacity]]

int64MaxHeapResize(h, newCapacity, reallocOk) ==
    IF reallocOk
    THEN [ret |-> TRUE,
          box |-> [h EXCEPT !.data = Realloc(h.data, h.capacity, newCapacity, FreshInt),
                            !.capacity = newCapacity]]
    ELSE [ret |-> FALSE, box |-> h]

\* h->data[h->size] = value; h->size++; heapifyUp(h, h->size - 1)
insertStore(h, value, grew) ==
    Result([h EXCEPT !.data = heapifyUp(Store(h.data, h.capacity, h.size, value), h.size),
                     !.size = h.size + 1],
           TRUE, 0, StoreFault(h.capacity, h.size), grew)

int64MaxHeapInsert(h, value, reallocOk) ==
    IF h.size + 1 > h.capacity
    THEN IF int64MaxHeapResize(h, h.capacity * 2, reallocOk).ret
         THEN insertStore(int64MaxHeapResize(h, h.capacity * 2, reallocOk).box, value, TRUE)
         ELSE Result(h, FALSE, 0, NoFault, FALSE)
    ELSE insertStore(h, value, FALSE)

int64MaxHeapPeek(h) ==
    IF h.size = 0 THEN Result(h, FALSE, 0, Exited, FALSE)
    ELSE Result(h, TRUE, h.data[0], NoFault, FALSE)

\* an extract that sifts the old root down instead of the last element
int64MaxHeapExtract_DropsLast(h) ==
    IF h.size = 0 THEN Result(h, FALSE, 0, Exited, FALSE)
    ELSE Result([h EXCEPT !.size = h.size - 1,
                          !.data = heapifyDown(h.data, h.size - 1, 0)],
                TRUE, h.data[0], NoFault, FALSE)

int64MaxHeapExtract(h) ==
    IF h.size = 0 THEN Result(h, FALSE, 0, Exited, FALSE)
    ELSE Result([h EXCEPT !.size = h.size - 1,
                          !.data = heapifyDown([h.data EXCEPT ![0] = h.data[h.size - 1]],
                                               h.size - 1, 0)],
                TRUE, h.data[0], NoFault, FALSE)

(***************************************************************************)
(* src/src/int64PriorityQueue.c: struct { data, size, capacity }           *)
(***************************************************************************)
int64PriorityQueueCreate(initialCapacity, callocOk) ==
    [ret |-> initialCapacity # 0 /\ callocOk,
     box |-> [data |-> Cells(initialCapacity, 0), size |-> 0,
              capacity |-> initialCapacity]]

int64PriorityQueueResize(pq, newCapacity, reallocOk) ==
    IF reallocOk
    THEN [ret |-> TRUE,
          box |-> [pq EXCEPT !.data = Realloc(pq.data, pq.capacity, newCapacity, FreshInt),
                             !.capacity = newCapacity]]
    ELSE [ret |-> FALSE, box |-> pq]

\* pq->data[pq->size] = value; heapifyUp(pq, pq->size); pq->size++
pushStore(pq, value, grew) ==
    Result([pq EXCEPT !.data = heapifyUp(Store(pq.data, pq.capacity, pq.size, value), pq.size),
                      !.size = pq.size + 1],
           TRUE, 0, StoreFault(pq.capacity, pq.size), grew)

int64PriorityQueuePush(pq, value, reallocOk) ==
    IF pq.size + 1 > pq.capacity
    THEN IF int64PriorityQueueResize(pq, pq.capacity * 2, reallocOk).ret
         THEN pushStore(int64PriorityQueueResize(pq, pq.capacity * 2, reallocOk).box,
                        value, TRUE)
         ELSE Result(pq, FALSE, 0, NoFault, FALSE)
    ELSE pushStore(pq, value, FALSE)

\* a pop that moves the last element to the root and never sifts it down
int64PriorityQueuePop_NoSift(pq) ==
    IF pq.size = 0 THEN Result(pq, FALSE, 0, Exited, FALSE)
    ELSE Result([pq EXCEPT !.size = pq.size - 1, !.data[0] = pq.data[pq.size - 1]],
                TRUE, pq.data[0], NoFault, FALSE)

int64PriorityQueuePop(pq) ==
    IF pq.size = 0 THEN Result(pq, FALSE, 0, Exited, FALSE)
    ELSE IF pq.size - 1 > 0
    THEN Result([pq EXCEPT !.size = pq.size - 1,
                           !.data = heapifyDown([pq.data EXCEPT ![0] = pq.data[pq.size - 1]],
                                                pq.size - 1, 0)],
                TRUE, pq.data[0], NoFault, FALSE)
    ELSE Result([pq EXCEPT !.size = pq.size - 1], TRUE, pq.data[0], NoFault, FALSE)

int64PriorityQueuePeek(pq) ==
    IF pq.size = 0 THEN Result(pq, FALSE, 0, Exited, FALSE)
    ELSE Result(pq, TRUE, pq.data[0], NoFault, FALSE)

(***************************************************************************)
(* src/src/int64Set.c on a set created with capacity 0.  The load check    *)
(* divides by the capacity in floating point, which gives +inf and asks    *)
(* for a resize to 0 * 2 slots; a resize that succeeds leaves the capacity *)
(* at 0 and the home index is then taken modulo 0.  Remove and contains    *)
(* take the home index modulo 0 at once.                                   *)
(***************************************************************************)
int64SetInsertAtZero(s, key, allocOk) ==
    IF NeedsResize(s) /\ ~int64SetResize(s, s.capacity * 2, allocOk).ok
    THEN Result(s, FALSE, 0, NoFault, FALSE)
    ELSE Result(int64SetResize(s, s.capacity * 2, allocOk).set, FALSE, 0,
                DivisionByZero, TRUE)

int64SetLookupAtZero(s, key) == Result(s, FALSE, 0, DivisionByZero, FALSE)

(***************************************************************************)
(* The driver of the array-backed containers.  bctx holds the kind of the  *)
(* container, the capacity it was created with and whether the constructor *)
(* handed out a container.  put is append / push / insert, take is delete  *)
(* / pop / extract, look is find / peek.                                   *)
(***************************************************************************)
ZeroCapacitySet == "Int64Set"

IntegerKinds == {"IntegerDynamicArray", "integerStack", "Int64MaxHeap",
                 "Int64PriorityQueue"}

BoxValues(k) == IF k = "StringStack" THEN StrValues ELSE IntValues

NoValue(k) == IF k = "StringStack" THEN NullString ELSE 0

\* number of stored elements
Stored(k, b) == IF k \in {"integerStack", "StringStack"} THEN b.top ELSE b.size

\* number of cells of the array
Room(k, b) == IF k = "integerStack" THEN b.size ELSE b.capacity

BoxCreate(k, capacity, callocOk) ==
    CASE k = "IntegerDynamicArray" -> initializeIntegerDynamicArray(capacity, callocOk)
      [] k = "integerStack" -> initializeIntegerStack(capacity, callocOk)
      [] k = "StringStack" -> initializeStringStack(capacity, callocOk)
      [] k = "Int64MaxHeap" -> int64MaxHeapCreate(capacity, callocOk)
      [] k = "Int64PriorityQueue" -> int64PriorityQueueCreate(capacity, callocOk)
      [] k = ZeroCapacitySet ->
            [ret |-> callocOk, box |-> int64SetCreate(capacity, ScenarioLoadFactor)]

BoxPut(k, b, v, reallocOk, strdupOk) ==
    CASE k = "IntegerDynamicArray" -> appendIntegerDynamicArray(b, v, reallocOk)
      [] k = "integerStack" -> pushIntegerStack(b, v, reallocOk)
      [] k = "StringStack" -> pushStringStack(b, v, reallocOk, strdupOk)
      [] k = "Int64MaxHeap" -> int64MaxHeapInsert(b, v, reallocOk)
      [] k = "Int64PriorityQueue" -> int64PriorityQueuePush(b, v, reallocOk)
      [] k = ZeroCapacitySet -> int64SetInsertAtZero(b, v, reallocOk)

BoxTake(k, b, v) ==
    CASE k = "IntegerDynamicArray" -> deleteIntegerDynamicArray(b, v)
      [] k = "integerStack" -> popIntegerStack(b)
      [] k = "StringStack" -> popStringStack(b)
      [] k = "Int64MaxHeap" -> int64MaxHeapExtract(b)
      [] k = "Int64PriorityQueue" -> int64PriorityQueuePop(b)
      [] k = ZeroCapacitySet -> int64SetLookupAtZero(b, v)

BoxLook(k, b, v) ==
    CASE k = "IntegerDynamicArray" -> findIntegerDynamicArray(b, v)
      [] k = "integerStack" -> peekIntegerStack(b)
      [] k = "StringStack" -> peekStringStack(b)
      [] k = "Int64MaxHeap" -> int64MaxHeapPeek(b)
      [] k = "Int64PriorityQueue" -> int64PriorityQueuePeek(b)
      [] k = ZeroCapacitySet -> int64SetLookupAtZero(b, v)

\* the value argument of take and look, which only the array has
ArgOf(k, v) == IF k \in {"IntegerDynamicArray", ZeroCapacitySet} THEN v ELSE NoValue(k)

Called(op, v, r) ==
    [op |-> op, value |-> v, ret |-> r.ret, out |-> r.out, fault |-> r.fault,
     grew |-> r.grew]

InitBox ==
    /\ \E k \in BoxKinds \cup {ZeroCapacitySet}, c \in InitBoxCapacities,
          callocOk \in BOOLEAN :
          /\ k = ZeroCapacitySet => c = 0
          /\ bctx = [kind |-> k, cap0 |-> c, built |-> BoxCreate(k, c, callocOk).ret]
          /\ box = BoxCreate(k, c, callocOk).box
          /\ blast = [op |-> "create", value |-> NoValue(k),
                      ret |-> BoxCreate(k, c, callocOk).ret, out |-> NoValue(k),
                      fault |-> NoFault, grew |-> FALSE]
    /\ bref = <<>>
    /\ IdleSet
    /\ IdleMap
    /\ IdleHash
    /\ IdleList

\* the caller goes on after a constructor that succeeded, and the process is
\* alive and its behaviour defined
Usable == bctx.built /\ blast.fault = NoFault

Put(v, reallocOk, strdupOk) ==
    /\ Usable
    /\ Stored(bctx.kind, box) >= Room(bctx.kind, box) =>
           2 * Room(bctx.kind, box) <= MaxBoxCapacity
    /\ box' = BoxPut(bctx.kind, box, v, reallocOk, strdupOk).box
    /\ blast' = Called("put", v, BoxPut(bctx.kind, box, v, reallocOk, strdupOk))
    /\ UNCHANGED <<bctx, notBoxVars>>

Take(v) ==
    /\ Usable
    /\ box' = BoxTake(bctx.kind, box, v).box
    /\ blast' = Called("take", ArgOf(bctx.kind, v), BoxTake(bctx.kind, box, v))
    /\ UNCHANGED <<bctx, notBoxVars>>

Look(v) ==
    /\ Usable
    /\ box' = BoxLook(bctx.kind, box, v).box
    /\ blast' = Called("look", ArgOf(bctx.kind, v), BoxLook(bctx.kind, box, v))
    /\ UNCHANGED <<bctx, notBoxVars>>

NextBox ==
    \/ \E v \in BoxValues(bctx.kind), reallocOk \in BOOLEAN, strdupOk \in BOOLEAN :
          Put(v, reallocOk, strdupOk)
    \/ \E v \in BoxValues(bctx.kind) : Take(v)
    \/ \E v \in BoxValues(bctx.kind) : Look(v)

SpecBox == InitBox /\ [][NextBox]_vars

(***************************************************************************)
(* Appends only: an IntegerDynamicArray created with a positive capacity   *)
(* to which values are appended and in which values are looked up.         *)
(***************************************************************************)
InitAppend ==
    /\ \E c \in InitBoxCapacities \ {0} :
          /\ bctx = [kind |-> "IntegerDynamicArray", cap0 |-> c, built |-> TRUE]
          /\ box = initializeIntegerDynamicArray(c, TRUE).box
    /\ blast = [op |-> "create", value |-> 0, ret |-> TRUE, out |-> 0,
                fault |-> NoFault, grew |-> FALSE]
    /\ bref = <<>>
    /\ IdleSet
    /\ IdleMap
    /\ IdleHash
    /\ IdleList

AppendCall(v, reallocOk) ==
    /\ box.size >= box.capacity => 2 * box.capacity <= MaxBoxCapacity
    /\ box' = appendIntegerDynamicArray(box, v, reallocOk).box
    /\ blast' = Called("put", v, appendIntegerDynamicArray(box, v, reallocOk))
    /\ UNCHANGED <<bctx, notBoxVars>>

FindCall(v) ==
    /\ blast' = Called("look", v, findIntegerDynamicArray(box, v))
    /\ UNCHANGED <<box, bctx, notBoxVars>>

NextAppend ==
    \/ \E v \in IntValues, reallocOk \in BOOLEAN : AppendCall(v, reallocOk)
    \/ \E v \in IntValues : FindCall(v)

SpecAppend == InitAppend /\ [][NextAppend]_vars

(***************************************************************************)
(* Properties of the array-backed containers.                              *)
(***************************************************************************)
\* the stored elements of b are at the same indices with the same values in c
SamePrefix(k, b, c) ==
    \A i \in 0 .. (Stored(k, b) - 1) : i \in DOMAIN c.data /\ c.data[i] = b.data[i]

\* C16: whenever pushStringStack returns false (the realloc of the array
\* fails, or strdup fails after the array has grown), top, capacity and the
\* stored strings are what they were before the call.
C16_PushStringAtomic ==
    [][ (bctx.kind = "StringStack" /\ blast'.op = "put" /\ ~blast'.ret) =>
            /\ box'.top = box.top
            /\ box'.capacity = box.capacity
            /\ SamePrefix(bctx.kind, box, box') ]_vars

\* C17 as stated: for appendIntegerDynamicArray, pushIntegerStack,
\* int64MaxHeapInsert and int64PriorityQueuePush, a failed growth returns
\* false and leaves size / top, capacity and the stored elements unchanged,
\* and after a growth that succeeds every previously stored element is at
\* the index it had, with the value it had.
C17_GrowthKeepsElements ==
    [][ (bctx.kind \in IntegerKinds /\ blast'.op = "put") =>
            /\ (Stored(bctx.kind, box) >= Room(bctx.kind, box) /\ ~blast'.grew) =>
                   (~blast'.ret /\ box' = box)
            /\ blast'.grew =>
                   (blast'.ret /\ SamePrefix(bctx.kind, box, box')) ]_vars

\* i is an ancestor of node n of the heap
RECURSIVE IsAncestor(_, _)
IsAncestor(i, n) == n > 0 /\ (heapParent(n) = i \/ IsAncestor(i, heapParent(n)))

\* how many of the first n cells hold v
Occurrences(data, n, v) == Cardinality({i \in 0 .. (n - 1) : data[i] = v})

\* C17 amended: a failed growth returns false and leaves size / top,
\* capacity and the stored elements unchanged.  After a growth that
\* succeeds, the array and the stack hold every previously stored element
\* at its index; the heap and the priority queue hold it at its index unless
\* it is an ancestor of the new last node (the sift-up of the new value may
\* move those down), and hold the previous values and the new one, each as
\* often as before.
C17_GrowthKeepsElementsAmended ==
    [][ (bctx.kind \in IntegerKinds /\ blast'.op = "put") =>
            /\ (Stored(bctx.kind, box) >= Room(bctx.kind, box) /\ ~blast'.grew) =>
                   (~blast'.ret /\ box' = box)
            /\ (blast'.grew /\ bctx.kind \in {"IntegerDynamicArray", "integerStack"}) =>
                   (blast'.ret /\ SamePrefix(bctx.kind, box, box'))
            /\ (blast'.grew /\ bctx.kind \in {"Int64MaxHeap", "Int64PriorityQueue"}) =>
                   /\ blast'.ret
                   /\ box'.capacity = 2 * box.capacity
                   /\ \A i \in 0 .. (box.size - 1) :
                         IsAncestor(i, box.size) \/ box'.data[i] = box.data[i]
                   /\ \A v \in IntValues :
                         Occurrences(box'.data, box.size + 1, v) =
                             Occurrences(box.data, box.size, v)
                                 + (IF v = blast'.value THEN 1 ELSE 0) ]_vars

\* an insert has grown a heap of two to four cells and its value went to the
\* root, moving the old root down
C17_Witness ==
    /\ bctx.kind = "Int64MaxHeap"
    /\ blast.op = "put" /\ blast.ret /\ blast.grew
    /\ box.size = 3 /\ box.capacity = 4
    /\ box.data[0] = blast.value
    /\ box.data[2] < blast.value

\* C18: a constructor called with capacity 0 hands out no container
\* (initializeIntegerDynamicArray, initializeIntegerStack,
\* initializeStringStack, int64SetCreate, int64MaxHeapCreate,
\* int64PriorityQueueCreate), so no later call writes past the storage or
\* divides by a zero capacity.
C18_ZeroCapacityRejected ==
    /\ bctx.cap0 = 0 => ~bctx.built
    /\ blast.fault \notin {PastStorage, DivisionByZero}

\* capacity is the smallest c * 2^j that is >= n
SmallestDoubling(c, n, capacity) ==
    \E j \in 0 .. MaxBoxCapacity :
        /\ capacity = c * Pow2(j)
        /\ capacity >= n
        /\ j > 0 => c * Pow2(j - 1) < n

\* C19: for an IntegerDynamicArray initialised with capacity c > 0, after n
\* successful appends and no delete the capacity is the smallest c * 2^j
\* that is >= n; the capacity changes only by doubling, and only in an
\* append made when size = capacity.
C19_GrowthInvariant ==
    [][ /\ SmallestDoubling(bctx.cap0, box.size, box.capacity)
        /\ SmallestDoubling(bctx.cap0, box'.size, box'.capacity)
        /\ blast'.ret /\ blast'.op = "put" => box'.size = box.size + 1
        /\ box'.capacity # box.capacity =>
              /\ box'.capacity = 2 * box.capacity
              /\ blast'.op = "put" /\ box.size = box.capacity ]_vars

\* the third append into an array created with capacity 1 has doubled it a
\* second time
C19_Witness ==
    /\ bctx.kind = "IntegerDynamicArray" /\ bctx.cap0 = 1
    /\ blast.op = "put" /\ blast.ret /\ blast.grew
    /\ box.size = 3 /\ box.capacity = 4

\* C20: for an IntegerDynamicArray, integerStack, StringStack, Int64MaxHeap
\* or Int64PriorityQueue created with capacity > 0, the number of stored
\* elements never exceeds the capacity.
C20_StoredWithinCapacity ==
    (bctx.kind \in BoxKinds /\ bctx.built /\ bctx.cap0 > 0) =>
        /\ Stored(bctx.kind, box) <= Room(bctx.kind, box)
        /\ Stored(bctx.kind, box) >= 0
        /\ DOMAIN box.data = 0 .. (Room(bctx.kind, box) - 1)

\* a push has filled an integer stack that has grown to twice the capacity
\* it was created with
C20_Witness ==
    /\ bctx.kind = "integerStack" /\ bctx.cap0 > 0
    /\ blast.op = "put" /\ blast.ret
    /\ box.top = box.size /\ box.size = 2 * bctx.cap0

\* C21: deleteIntegerDynamicArray(value), when value occurs in the array,
\* returns true and removes the occurrence with the smallest index (the index
\* findIntegerDynamicArray reports): the elements before it are unchanged,
\* every later element is one index lower in the same order, size is one
\* less and capacity is unchanged.  When value does not occur it returns
\* false and the array is unchanged.
C21_DeleteFirstMatch ==
    [][ (bctx.kind = "IntegerDynamicArray" /\ blast'.op = "take") =>
            IF \E i \in 0 .. (box.size - 1) : box.data[i] = blast'.value
            THEN /\ blast'.ret
                 /\ findIntegerDynamicArray(box, blast'.value).ret
                 /\ box.data[findIntegerDynamicArray(box, blast'.value).out]
                        = blast'.value
                 /\ \A i \in 0 .. (box.size - 1) :
                       box.data[i] = blast'.value =>
                           findIntegerDynamicArray(box, blast'.value).out <= i
                 /\ box'.size = box.size - 1
                 /\ box'.capacity = box.capacity
                 /\ \A i \in 0 .. (box.size - 2) :
                       box'.data[i] =
                           IF i < findIntegerDynamicArray(box, blast'.value).out
                           THEN box.data[i] ELSE box.data[i + 1]
            ELSE ~blast'.ret /\ box' = box ]_vars

\* a delete has removed the first of two occurrences of the value: the later
\* one is still stored, after an element that was not touched
C21_Witness ==
    /\ bctx.kind = "IntegerDynamicArray"
    /\ blast.op = "take" /\ blast.ret
    /\ box.size = 2 /\ box.data[0] # blast.value /\ box.data[1] = blast.value

(***************************************************************************)
(* SpecStack: pushes and pops on an integerStack in any interleaving.  As  *)
(* in main the i-th push pushes the value i, and there are at most         *)
(* ScenarioPushes of them.  bref is the reference stack: the values pushed *)
(* and not yet popped (live), the number of pushes, the values popped so   *)
(* far in order (out) and the number of pushes that preceded the first pop *)
(* (firstPopAt, 0 before it).                                              *)
(***************************************************************************)
ScenarioStackCapacity == 4    \* main: initializeIntegerStack(&stack, 4)
ScenarioPushes == 10          \* main: for (int i = 1; i <= 10; i++)
StackCapacities == {1, 2, ScenarioStackCapacity}

InitStack ==
    /\ \E c \in StackCapacities :
          /\ bctx = [kind |-> "integerStack", cap0 |-> c, built |-> TRUE]
          /\ box = initializeIntegerStack(c, TRUE).box
    /\ blast = [op |-> "create", value |-> 0, ret |-> TRUE, out |-> 0,
                fault |-> NoFault, grew |-> FALSE]
    /\ bref = [live |-> <<>>, pushes |-> 0, out |-> <<>>, firstPopAt |-> 0]
    /\ IdleSet
    /\ IdleMap
    /\ IdleHash
    /\ IdleList

StackPush(reallocOk) ==
    /\ bref.pushes < ScenarioPushes
    /\ box' = pushIntegerStack(box, bref.pushes + 1, reallocOk).box
    /\ blast' = Called("put", bref.pushes + 1,
                       pushIntegerStack(box, bref.pushes + 1, reallocOk))
    /\ bref' = IF isFullIntegerStack(box) /\ ~reallocOk THEN bref
               ELSE [bref EXCEPT !.live = Append(bref.live, bref.pushes + 1),
                                 !.pushes = bref.pushes + 1]
    /\ UNCHANGED <<bctx, setVars, mapVars, hcall, listVars>>

StackPop ==
    /\ box' = popIntegerStack(box).box
    /\ blast' = Called("take", 0, popIntegerStack(box))
    /\ bref' = IF Len(bref.live) = 0 THEN bref
               ELSE [bref EXCEPT
                        !.live = SubSeq(bref.live, 1, Len(bref.live) - 1),
                        !.out = Append(bref.out, bref.live[Len(bref.live)]),
                        !.firstPopAt = IF bref.out = <<>> THEN bref.pushes
                                       ELSE bref.firstPopAt]
    /\ UNCHANGED <<bctx, setVars, mapVars, hcall, listVars>>

StackPeek ==
    /\ blast' = Called("look", 0, peekIntegerStack(box))
    /\ UNCHANGED <<box, bctx, bref, setVars, mapVars, hcall, listVars>>

NextStack ==
    \/ \E reallocOk \in BOOLEAN : StackPush(reallocOk)
    \/ StackPop
    \/ StackPeek

SpecStack == InitStack /\ [][NextStack]_vars

\* C22: the integer stack is LIFO over any interleaving of pushes and pops:
\* a pop succeeds exactly when some pushed value has not been popped yet and
\* returns the most recently pushed one of them, also after the array has
\* doubled.  In the run of main (initial capacity 4, the values 1 .. 10
\* pushed before the first pop) the capacity is 16 after the pushes and the
\* pops return 10, 9, ..., 1.
C22_Lifo ==
    [][ /\ blast'.op = "take" =>
               IF Len(bref.live) > 0
               THEN blast'.ret /\ blast'.out = bref.live[Len(bref.live)]
               ELSE ~blast'.ret
        /\ (bctx.cap0 = ScenarioStackCapacity /\ bref'.pushes = ScenarioPushes
                /\ bref'.out = <<>>) =>
               (box'.top = ScenarioPushes /\ box'.size = 16)
        /\ (bctx.cap0 = ScenarioStackCapacity
                /\ bref'.firstPopAt = ScenarioPushes) =>
               bref'.out = [i \in 1 .. Len(bref'.out) |-> ScenarioPushes + 1 - i]
      ]_vars

\* the run of main is over: ten pushes into the stack of capacity 4, then ten
\* pops that emptied it
C22_Witness ==
    /\ bctx.kind = "integerStack" /\ bctx.cap0 = ScenarioStackCapacity
    /\ bref.firstPopAt = ScenarioPushes
    /\ Len(bref.out) = ScenarioPushes /\ bref.live = <<>>
    /\ blast.op = "take" /\ blast.ret /\ blast.out = 1
    /\ box.top = 0 /\ box.size = 16

\* C23: on an empty integerStack or StringStack, pop and peek return false,
\* write nothing to the output parameter and leave the struct (top, capacity
\* and the array) as it was; on a non-empty stack peek returns true with the
\* value the next pop returns and changes nothing.
C23_EmptyStackAndPeek ==
    [][ (bctx.kind \in {"integerStack", "StringStack"}
            /\ blast'.op \in {"take", "look"}) =>
            IF Stored(bctx.kind, box) = 0
            THEN /\ ~blast'.ret
                 /\ blast'.out = NoValue(bctx.kind)
                 /\ box'.top = box.top
                 /\ Room(bctx.kind, box') = Room(bctx.kind, box)
                 /\ box' = box
            ELSE blast'.op = "look" =>
                     /\ blast'.ret
                     /\ box' = box
                     /\ BoxTake(bctx.kind, box', NoValue(bctx.kind)).ret
                     /\ blast'.out = BoxTake(bctx.kind, box', NoValue(bctx.kind)).out
      ]_vars

\* a pop was refused on an integer stack that had held a value and was
\* emptied again
C23_Witness ==
    /\ bctx.kind = "integerStack"
    /\ blast.op = "take" /\ ~blast.ret
    /\ box.top = 0 /\ box.size > 0 /\ box.data[0] \in IntValues

(***************************************************************************)
(* SpecHeap: inserts, extracts and peeks on an Int64MaxHeap or an          *)
(* Int64PriorityQueue.  Either the values are any of HeapValues and the    *)
(* calls come in any order, or (bref.demo) the run is the one of main of   *)
(* int64MaxHeap.c: capacity 4, the i-th insert inserts i * (i % 2 ? 3 :    *)
(* -2) for i = 1 .. 10, then the heap is extracted.  bref is the           *)
(* reference: while every insert so far has preceded every extract, in is  *)
(* the inserted values sorted in descending order and out the extracted    *)
(* values in the order they came; once an insert follows an extract        *)
(* (mixed) they are no longer kept.  An extract or a peek on the empty     *)
(* container ends the process.                                             *)
(***************************************************************************)
MaxHeapInserts == 5           \* inserts of a run with values of HeapValues
ScenarioHeapCapacity == 4     \* main: int64MaxHeapCreate(4)
ScenarioHeapInserts == 10     \* main: for (int i = 1; i <= 10; i++)
HeapKinds == {"Int64MaxHeap", "Int64PriorityQueue"}
HeapValues == {1, 2, 3}
HeapCapacities == {1, 2}

\* main: i * (i % 2 ? 3 : -2)
DemoValue(i) == i * (IF i % 2 # 0 THEN 3 ELSE -2)

\* s is sorted in descending order; v goes behind the elements >= v
InsertSorted(s, v) ==
    SubSeq(s, 1, Cardinality({i \in 1 .. Len(s) : s[i] >= v})) \o <<v>>
        \o SubSeq(s, Cardinality({i \in 1 .. Len(s) : s[i] >= v}) + 1, Len(s))

InitHeap ==
    /\ \E k \in HeapKinds, c \in HeapCapacities \cup {ScenarioHeapCapacity} :
          /\ c = ScenarioHeapCapacity => k = "Int64MaxHeap"
          /\ bctx = [kind |-> k, cap0 |-> c, built |-> TRUE]
          /\ box = BoxCreate(k, c, TRUE).box
          /\ bref = [demo |-> (c = ScenarioHeapCapacity), in |-> <<>>, out |-> <<>>,
                     mixed |-> FALSE, inserts |-> 0]
    /\ blast = [op |-> "create", value |-> 0, ret |-> TRUE, out |-> 0,
                fault |-> NoFault, grew |-> FALSE]
    /\ IdleSet
    /\ IdleMap
    /\ IdleHash
    /\ IdleList

HeapInsert(v, reallocOk) ==
    /\ blast.fault = NoFault
    /\ IF bref.demo
       THEN /\ bref.inserts < ScenarioHeapInserts
            /\ v = DemoValue(bref.inserts + 1)
            /\ bref.out = <<>>
            /\ reallocOk
       ELSE /\ bref.inserts < MaxHeapInserts
            /\ v \in HeapValues
    /\ box' = BoxPut(bctx.kind, box, v, reallocOk, TRUE).box
    /\ blast' = Called("put", v, BoxPut(bctx.kind, box, v, reallocOk, TRUE))
    /\ bref' = IF box.size >= box.capacity /\ ~reallocOk THEN bref
               ELSE IF bref.mixed \/ bref.out # <<>>
               THEN [bref EXCEPT !.mixed = TRUE, !.in = <<>>, !.out = <<>>,
                                 !.inserts = bref.inserts + 1]
               ELSE [bref EXCEPT !.in = InsertSorted(bref.in, v),
                                 !.inserts = bref.inserts + 1]
    /\ UNCHANGED <<bctx, setVars, mapVars, hcall, listVars>>

HeapExtract ==
    /\ blast.fault = NoFault
    /\ bref.demo => bref.inserts = ScenarioHeapInserts
    /\ box' = BoxTake(bctx.kind, box, 0).box
    /\ blast' = Called("take", 0, BoxTake(bctx.kind, box, 0))
    /\ bref' = IF bref.mixed \/ box.size = 0 THEN bref
               ELSE [bref EXCEPT !.out = Append(bref.out, BoxTake(bctx.kind, box, 0).out)]
    /\ UNCHANGED <<bctx, setVars, mapVars, hcall, listVars>>

HeapPeek ==
    /\ blast.fault = NoFault
    /\ blast' = Called("look", 0, BoxLook(bctx.kind, box, 0))
    /\ UNCHANGED <<box, bctx, bref, setVars, mapVars, hcall, listVars>>

NextHeap ==
    \/ \E v \in HeapValues \cup {DemoValue(i) : i \in 1 .. ScenarioHeapInserts},
          reallocOk \in BOOLEAN : HeapInsert(v, reallocOk)
    \/ HeapExtract
    \/ HeapPeek

SpecHeap == InitHeap /\ [][NextHeap]_vars

\* C24: heap invariant.  After any sequence of successful inserts and
\* extracts on an Int64MaxHeap, and pushes and pops on an Int64PriorityQueue,
\* every stored element is at least as large as each of its stored children:
\* for i < size and c in {2i+1, 2i+2} with c < size, data[i] >= data[c].
C24_HeapInvariant ==
    bctx.kind \in HeapKinds =>
        \A i \in 0 .. (box.size - 1) :
            \A c \in {2 * i + 1, 2 * i + 2} :
                c < box.size => box.data[i] >= box.data[c]

\* a heap of four elements after an extract whose sift-down went two levels
\* down: the array had five elements and the moved last one is now a leaf
C24_Witness ==
    /\ bctx.kind = "Int64MaxHeap"
    /\ blast.op = "take" /\ blast.ret
    /\ box.size = 4
    /\ box.capacity > 4 /\ box.data[3] = box.data[4]
    /\ box.data[3] < box.data[1] /\ box.data[3] < box.data[2]

\* C25: heap sort property.  When a sequence of values (duplicates allowed)
\* has been inserted into a max-heap and extracts follow, the extracted
\* values are the inserted ones from the largest down: non-increasing, and
\* once the heap is empty exactly the inserted multiset.  For the input of
\* main, i * (i % 2 ? 3 : -2) for i = 1 .. 10 with initial capacity 4, the
\* first extract returns 27, the second 21, and the rest follow in
\* descending order.
C25_HeapSort ==
    (bctx.kind \in HeapKinds /\ ~bref.mixed) =>
        /\ Len(bref.out) + box.size = Len(bref.in)
        /\ bref.out = SubSeq(bref.in, 1, Len(bref.out))
        /\ \A i \in 1 .. (Len(bref.out) - 1) : bref.out[i] >= bref.out[i + 1]
        /\ box.size = 0 => bref.out = bref.in
        /\ bref.demo =>
               /\ Len(bref.out) >= 1 => bref.out[1] = 27
               /\ Len(bref.out) >= 2 => bref.out[2] = 21
               /\ Len(bref.in) = ScenarioHeapInserts =>
                      bref.in = <<27, 21, 15, 9, 3, -4, -8, -12, -16, -20>>

\* the run of main is over: the ten values went in, came out again, and the
\* heap is empty
C25_Witness ==
    /\ bctx.kind = "Int64MaxHeap" /\ bref.demo
    /\ blast.op = "take" /\ blast.ret /\ blast.out = -20
    /\ Len(bref.out) = ScenarioHeapInserts
    /\ box.size = 0 /\ box.capacity = 16

\* C26: peek and extract / pop on an empty Int64MaxHeap or Int64PriorityQueue
\* report the empty container to the caller (the call comes back without a
\* value) and leave the container unchanged; they never end the process.
C26_EmptyReported ==
    [][ (bctx.kind \in HeapKinds /\ blast'.op \in {"take", "look"}
            /\ box.size = 0) =>
            (~blast'.ret /\ blast'.fault # Exited /\ box' = box) ]_vars

(***************************************************************************)
(* Part 4: the linked containers: the generic LinkedList, the doubly       *)
(* linked Int64LinkedList and the stringDynamicArray.  A node pointer is   *)
(* the number of a node of the heap, NULL is 0; calloc hands out the       *)
(* lowest node that is not allocated, so the address of a freed node is    *)
(* used again at once.                                                     *)
(***************************************************************************)
MaxListNodes == 3    \* an append to a list of this many nodes is not issued
MaxPayloads == 3     \* payloads a run creates at most

NULL == 0

ListValues == {1, 2}     \* the int a payload holds, and the int of a key

NodeIds == 1 .. MaxListNodes

NewNode(nodes) == Min({n \in DOMAIN nodes : ~nodes[n].live})

\* the nodes from node n on, following next; fuel bounds the walk
RECURSIVE ChainFrom(_, _, _)
ChainFrom(nodes, n, fuel) ==
    IF n = NULL \/ fuel = 0 THEN <<>>
    ELSE <<n>> \o ChainFrom(nodes, nodes[n].next, fuel - 1)

Chain(l) == ChainFrom(l.nodes, l.head, Cardinality(DOMAIN l.nodes) + 1)

LiveNodes(l) == {n \in DOMAIN l.nodes : l.nodes[n].live}

(***************************************************************************)
(* src/src/genericLinkedList.c: struct { head, tail, size, freeFunction,   *)
(* compareFunction }, the nodes { data, next } and the payloads the data   *)
(* pointers point to.  A payload is the int of main; released counts the   *)
(* calls of freeFunction on it.  A target is a pointer with the int it     *)
(* points to: the address of a key variable (ptr NULL here: it is no       *)
(* payload) or a payload.                                                  *)
(***************************************************************************)
FreeListNode == [data |-> NULL, next |-> NULL, live |-> FALSE]

initLinkedList(freeFunction, compareFunction) ==
    [head |-> NULL, tail |-> NULL, size |-> 0,
     freeFunction |-> freeFunction, compareFunction |-> compareFunction,
     nodes |-> [n \in NodeIds |-> FreeListNode],
     payloads |-> [q \in 1 .. MaxPayloads |->
                      [value |-> 0, appended |-> FALSE, released |-> 0]],
     made |-> 0]

\* the list after createNode has succeeded with node
appendLink(l, node, data) ==
    IF l.head = NULL
    THEN [l EXCEPT !.nodes[node] = [data |-> data, next |-> NULL, live |-> TRUE],
                   !.head = node, !.tail = node, !.size = l.size + 1]
    ELSE [l EXCEPT !.nodes[node] = [data |-> data, next |-> NULL, live |-> TRUE],
                   !.nodes[l.tail].next = node,
                   !.tail = node, !.size = l.size + 1]

appendLinkedList(l, data, callocOk) ==
    IF ~callocOk THEN [list |-> l, ret |-> FALSE]
    ELSE [list |-> appendLink(l, NewNode(l.nodes), data), ret |-> TRUE]

\* compareFunction(current->data, target) == 0, or current->data == target
Matches(l, current, target) ==
    IF l.compareFunction
    THEN l.payloads[l.nodes[current].data].value - target.value = 0
    ELSE l.nodes[current].data = target.ptr

RECURSIVE findLinkedList(_, _, _)
findLinkedList(l, current, target) ==
    IF current = NULL THEN NULL
    ELSE IF Matches(l, current, target) THEN current
    ELSE findLinkedList(l, l.nodes[current].next, target)

\* a search loop that goes on to the last node that matches
removeScan_LastMatch(l, current, previous, target) ==
    LET chain == ChainFrom(l.nodes, current, Cardinality(DOMAIN l.nodes) + 1)
        hits == {i \in 1 .. Len(chain) : Matches(l, chain[i], target)}
        at == IF hits = {} THEN Len(chain) + 1
              ELSE CHOOSE i \in hits : \A j \in hits : j <= i
    IN  [current |-> IF at > Len(chain) THEN NULL ELSE chain[at],
         previous |-> IF at = 1 THEN previous ELSE chain[at - 1]]

\* the search loop of removeLinkedList: current and previous when it ends
RECURSIVE removeScan(_, _, _, _)
removeScan(l, current, previous, target) ==
    IF current = NULL \/ Matches(l, current, target)
    THEN [current |-> current, previous |-> previous]
    ELSE removeScan(l, l.nodes[current].next, current, target)

\* list->freeFunction(data), when there is one
Release(l, data) ==
    IF l.freeFunction
    THEN [l.payloads EXCEPT ![data].released = l.payloads[data].released + 1]
    ELSE l.payloads

\* a remove that leaves tail alone
removeTail_Stale(l, current, previous) == l.tail

\* if (current == list->tail) list->tail = previous
removeTail(l, current, previous) == IF current = l.tail THEN previous ELSE l.tail

removeUnlink(l, current, previous) ==
    [l EXCEPT !.head = IF previous = NULL THEN l.nodes[current].next ELSE l.head,
              !.nodes = [n \in DOMAIN l.nodes |->
                            IF n = current THEN FreeListNode
                            ELSE IF n = previous
                            THEN [l.nodes[n] EXCEPT !.next = l.nodes[current].next]
                            ELSE l.nodes[n]],
              !.tail = removeTail(l, current, previous),
              !.payloads = Release(l, l.nodes[current].data),
              !.size = l.size - 1]

removeLinkedList(l, target) ==
    IF removeScan(l, l.head, NULL, target).current = NULL
    THEN [list |-> l, ret |-> FALSE]
    ELSE [list |-> removeUnlink(l, removeScan(l, l.head, NULL, target).current,
                                removeScan(l, l.head, NULL, target).previous),
          ret |-> TRUE]

\* the loop of freeLinkedList from current on
RECURSIVE freeFrom(_, _)
freeFrom(l, current) ==
    IF current = NULL THEN l
    ELSE freeFrom([l EXCEPT !.payloads = Release(l, l.nodes[current].data),
                            !.nodes[current] = FreeListNode],
                  l.nodes[current].next)

\* a destroy that frees the nodes and leaves the payloads alone
freeLinkedList_NodesOnly(l) ==
    [l EXCEPT !.nodes = [n \in DOMAIN l.nodes |-> FreeListNode],
              !.head = NULL, !.tail = NULL, !.size = 0]

freeLinkedList(l) ==
    [freeFrom(l, l.head) EXCEPT !.head = NULL, !.tail = NULL, !.size = 0]

(***************************************************************************)
(* SpecList: appends, finds, removes and destroys on a generic LinkedList  *)
(* in any order.  As in main every append hands over a payload of its own. *)
(***************************************************************************)
\* the payloads the callback has been called on, each as often as it was
Releases(l) ==
    {<<q, i>> : q \in DOMAIN l.payloads, i \in 1 .. 2} \cap
        {x \in (DOMAIN l.payloads) \X (1 .. 2) : x[2] <= l.payloads[x[1]].released}

\* what a caller may pass as the target of find and remove
Targets(l) ==
    {[ptr |-> NULL, value |-> v] : v \in ListValues} \cup
    {[ptr |-> q, value |-> l.payloads[q].value] :
        q \in {r \in DOMAIN l.payloads :
                  l.payloads[r].appended /\ l.payloads[r].released = 0}}

ListCalled(op, ret, data, l, m) ==
    [op |-> op, ret |-> ret, data |-> data,
     freed |-> Cardinality(Releases(m)) - Cardinality(Releases(l))]

InitList ==
    /\ lkind = "LinkedList"
    /\ \E freeFunction \in BOOLEAN, compareFunction \in BOOLEAN :
          list = initLinkedList(freeFunction, compareFunction)
    /\ llast = [op |-> "init", ret |-> TRUE, data |-> NULL, freed |-> 0]
    /\ IdleSet
    /\ IdleMap
    /\ IdleBox
    /\ IdleHash

\* the payload is made by the caller and handed to appendLinkedList
ListAppend(v, callocOk) ==
    /\ list.made < MaxPayloads
    /\ list.size < MaxListNodes
    /\ list' = [appendLinkedList(list, list.made + 1, callocOk).list EXCEPT
                   !.payloads[list.made + 1] =
                       [value |-> v, appended |-> callocOk, released |-> 0],
                   !.made = list.made + 1]
    /\ llast' = ListCalled("append", appendLinkedList(list, list.made + 1, callocOk).ret,
                           list.made + 1, list, list')
    /\ UNCHANGED <<lkind, notListVars>>

ListFind(target) ==
    /\ llast' = [op |-> "find", ret |-> findLinkedList(list, list.head, target) # NULL,
                 data |-> target.ptr, freed |-> 0, value |-> target.value,
                 node |-> findLinkedList(list, list.head, target)]
    /\ UNCHANGED <<list, lkind, notListVars>>

ListRemove(target) ==
    /\ list' = removeLinkedList(list, target).list
    /\ llast' = [op |-> "remove", ret |-> removeLinkedList(list, target).ret,
                 data |-> target.ptr,
                 freed |-> ListCalled("remove", TRUE, NULL, list, list').freed,
                 value |-> target.value,
                 node |-> removeScan(list, list.head, NULL, target).current]
    /\ UNCHANGED <<lkind, notListVars>>

ListFree ==
    /\ list' = freeLinkedList(list)
    /\ llast' = ListCalled("free", TRUE, NULL, list, list')
    /\ UNCHANGED <<lkind, notListVars>>

NextList ==
    \/ \E v \in ListValues, callocOk \in BOOLEAN : ListAppend(v, callocOk)
    \/ \E target \in Targets(list) : ListFind(target)
    \/ \E target \in Targets(list) : ListRemove(target)
    \/ ListFree

SpecList == InitList /\ [][NextList]_vars

\* the payloads of the nodes of the chain, from head on
Contents(l) == [i \in 1 .. Len(Chain(l)) |-> l.nodes[Chain(l)[i]].data]

\* head and tail are the ends of the chain of the allocated nodes and size
\* is their number
WellFormedList(l) ==
    /\ (l.head = NULL) <=> (l.size = 0)
    /\ (l.tail = NULL) <=> (l.size = 0)
    /\ Len(Chain(l)) = l.size
    /\ {Chain(l)[i] : i \in 1 .. Len(Chain(l))} = LiveNodes(l)
    /\ Cardinality(LiveNodes(l)) = l.size
    /\ l.size > 0 =>
           /\ l.head = Chain(l)[1]
           /\ l.tail = Chain(l)[Len(Chain(l))]
           /\ l.nodes[l.tail].next = NULL

\* C27: in every state of the generic LinkedList reached by appendLinkedList
\* and removeLinkedList, head is the first node of the chain and tail the
\* last (both NULL exactly when the list is empty, tail->next NULL
\* otherwise) and size is the number of nodes reachable from head; an append
\* that succeeds, also after the tail or the only node was removed, puts its
\* payload at the end of the chain behind the payloads that were there.
C27_HeadTailSize ==
    [][ lkind = "LinkedList" =>
            /\ WellFormedList(list')
            /\ (llast'.op = "append" /\ llast'.ret) =>
                   Contents(list') = Append(Contents(list), llast'.data) ]_vars

\* an append has linked its node behind the node that became the tail when
\* the former tail was removed
C27_Witness ==
    /\ lkind = "LinkedList"
    /\ llast.op = "append" /\ llast.ret
    /\ list.size = 2 /\ list.made = 3
    /\ list.payloads[2].appended /\ 2 \notin {Contents(list)[i] : i \in 1 .. 2}
    /\ Contents(list) = <<1, 3>>

\* C28: for a generic LinkedList with a release callback, over any sequence
\* of appends and removes ended by freeLinkedList, the callback is called
\* exactly once on every payload that was appended, at its removal or at
\* the destroy (so not while its node is in the list), never twice on the
\* same payload and never on a payload whose append failed; after
\* freeLinkedList the list is empty: head = tail = NULL and size = 0.
C28_ReleasedOnce ==
    (lkind = "LinkedList" /\ list.freeFunction) =>
        /\ \A q \in DOMAIN list.payloads :
              list.payloads[q].released =
                  IF list.payloads[q].appended
                        /\ q \notin {Contents(list)[i] : i \in 1 .. Len(Contents(list))}
                  THEN 1 ELSE 0
        /\ llast.op = "free" =>
              /\ list.head = NULL /\ list.tail = NULL /\ list.size = 0
              /\ LiveNodes(list) = {}
              /\ \A q \in DOMAIN list.payloads :
                    list.payloads[q].appended => list.payloads[q].released = 1

\* a destroy has released the two payloads that were still in the list; the
\* third had been released when it was removed
C28_Witness ==
    /\ lkind = "LinkedList" /\ list.freeFunction
    /\ llast.op = "free" /\ llast.freed = 2
    /\ \A q \in 1 .. 3 : list.payloads[q].appended /\ list.payloads[q].released = 1

(***************************************************************************)
(* src/src/int64DoublyLinkedList.c: struct { head, tail, size } and the    *)
(* nodes { value, prev, next }.                                            *)
(***************************************************************************)
DListValues == {1, 2}    \* the int64_t of a node

FreeDListNode == [value |-> 0, prev |-> NULL, next |-> NULL, live |-> FALSE]

\* the list after int64LinkedListCreate has succeeded
int64LinkedListCreate ==
    [head |-> NULL, tail |-> NULL, size |-> 0,
     nodes |-> [n \in NodeIds |-> FreeDListNode]]

\* the node after int64LinkedListNodeCreate has succeeded
int64LinkedListNodeCreate(value) ==
    [value |-> value, prev |-> NULL, next |-> NULL, live |-> TRUE]

\* m->next = x and m->prev = x for a node m
SetNext(nodes, m, x) == [nodes EXCEPT ![m].next = x]

SetPrev(nodes, m, x) == [nodes EXCEPT ![m].prev = x]

insertFrontLink(l, node, value) ==
    [l EXCEPT !.nodes = IF l.head # NULL
                        THEN SetPrev(SetNext([l.nodes EXCEPT
                                                 ![node] = int64LinkedListNodeCreate(value)],
                                             node, l.head),
                                     l.head, node)
                        ELSE SetNext([l.nodes EXCEPT
                                         ![node] = int64LinkedListNodeCreate(value)],
                                     node, l.head),
              !.tail = IF l.head # NULL THEN l.tail ELSE node,
              !.head = node,
              !.size = l.size + 1]

\* node is the returned pointer, NULL when calloc fails
int64LinkedListInsertFront(l, value, callocOk) ==
    IF ~callocOk THEN [list |-> l, node |-> NULL]
    ELSE [list |-> insertFrontLink(l, NewNode(l.nodes), value),
          node |-> NewNode(l.nodes)]

insertBackLink(l, node, value) ==
    [l EXCEPT !.nodes = IF l.tail # NULL
                        THEN SetNext(SetPrev([l.nodes EXCEPT
                                                 ![node] = int64LinkedListNodeCreate(value)],
                                             node, l.tail),
                                     l.tail, node)
                        ELSE SetPrev([l.nodes EXCEPT
                                         ![node] = int64LinkedListNodeCreate(value)],
                                     node, l.tail),
              !.head = IF l.tail # NULL THEN l.head ELSE node,
              !.tail = node,
              !.size = l.size + 1]

int64LinkedListInsertBack(l, value, callocOk) ==
    IF ~callocOk THEN [list |-> l, node |-> NULL]
    ELSE [list |-> insertBackLink(l, NewNode(l.nodes), value),
          node |-> NewNode(l.nodes)]

\* a remove that does not mend the prev pointer of the following node
removeNodeNext_Skipped(l, nodes, node) == nodes

\* if (node->prev) node->prev->next = node->next; else list->head = ...
removeNodePrev(l, nodes, node) ==
    IF l.nodes[node].prev # NULL
    THEN SetNext(nodes, l.nodes[node].prev, l.nodes[node].next)
    ELSE nodes

\* if (node->next) node->next->prev = node->prev; else list->tail = ...
removeNodeNext(l, nodes, node) ==
    IF l.nodes[node].next # NULL
    THEN SetPrev(nodes, l.nodes[node].next, l.nodes[node].prev)
    ELSE nodes

int64LinkedListRemoveNode(l, node) ==
    IF node = NULL THEN [list |-> l, ret |-> FALSE]
    ELSE [list |->
            [l EXCEPT
                !.nodes = [removeNodeNext(l, removeNodePrev(l, l.nodes, node), node)
                              EXCEPT ![node] = FreeDListNode],
                !.head = IF l.nodes[node].prev # NULL THEN l.head
                         ELSE l.nodes[node].next,
                !.tail = IF l.nodes[node].next # NULL THEN l.tail
                         ELSE l.nodes[node].prev,
                !.size = l.size - 1],
          ret |-> TRUE]

RECURSIVE int64LinkedListFind(_, _, _)
int64LinkedListFind(l, current, value) ==
    IF current = NULL THEN NULL
    ELSE IF l.nodes[current].value = value THEN current
    ELSE int64LinkedListFind(l, l.nodes[current].next, value)

int64LinkedListRemoveValue(l, value) ==
    IF int64LinkedListFind(l, l.head, value) = NULL THEN [list |-> l, ret |-> FALSE]
    ELSE int64LinkedListRemoveNode(l, int64LinkedListFind(l, l.head, value))

(***************************************************************************)
(* SpecDList: inserts at the front and at the back, removes by node handle *)
(* (a node of the list, or NULL) and removes by value, in any order.       *)
(***************************************************************************)
InitDList ==
    /\ lkind = "Int64LinkedList"
    /\ list = int64LinkedListCreate
    /\ llast = [op |-> "create", ret |-> TRUE, node |-> NULL]
    /\ IdleSet
    /\ IdleMap
    /\ IdleBox
    /\ IdleHash

InsertFront(v, callocOk) ==
    /\ list.size < MaxListNodes
    /\ list' = int64LinkedListInsertFront(list, v, callocOk).list
    /\ llast' = [op |-> "insertFront", ret |-> callocOk,
                 node |-> int64LinkedListInsertFront(list, v, callocOk).node]
    /\ UNCHANGED <<lkind, notListVars>>

InsertBack(v, callocOk) ==
    /\ list.size < MaxListNodes
    /\ list' = int64LinkedListInsertBack(list, v, callocOk).list
    /\ llast' = [op |-> "insertBack", ret |-> callocOk,
                 node |-> int64LinkedListInsertBack(list, v, callocOk).node]
    /\ UNCHANGED <<lkind, notListVars>>

RemoveNode(node) ==
    /\ list' = int64LinkedListRemoveNode(list, node).list
    /\ llast' = [op |-> "removeNode", ret |-> int64LinkedListRemoveNode(list, node).ret,
                 node |-> node]
    /\ UNCHANGED <<lkind, notListVars>>

RemoveValue(v) ==
    /\ list' = int64LinkedListRemoveValue(list, v).list
    /\ llast' = [op |-> "removeValue", ret |-> int64LinkedListRemoveValue(list, v).ret,
                 node |-> int64LinkedListFind(list, list.head, v)]
    /\ UNCHANGED <<lkind, notListVars>>

NextDList ==
    \/ \E v \in DListValues, callocOk \in BOOLEAN : InsertFront(v, callocOk)
    \/ \E v \in DListValues, callocOk \in BOOLEAN : InsertBack(v, callocOk)
    \/ \E node \in LiveNodes(list) \cup {NULL} : RemoveNode(node)
    \/ \E v \in DListValues : RemoveValue(v)

SpecDList == InitDList /\ [][NextDList]_vars

\* the nodes from node n on, following prev
RECURSIVE BackFrom(_, _, _)
BackFrom(nodes, n, fuel) ==
    IF n = NULL \/ fuel = 0 THEN <<>>
    ELSE <<n>> \o BackFrom(nodes, nodes[n].prev, fuel - 1)

Reverse(q) == [i \in 1 .. Len(q) |-> q[Len(q) + 1 - i]]

WellFormedDList(l) ==
    /\ l.head # NULL => l.nodes[l.head].prev = NULL
    /\ l.tail # NULL => l.nodes[l.tail].next = NULL
    /\ (l.head = NULL) <=> (l.tail = NULL)
    /\ (l.head = NULL) <=> (l.size = 0)
    /\ {Chain(l)[i] : i \in 1 .. Len(Chain(l))} = LiveNodes(l)
    /\ Len(Chain(l)) = l.size
    /\ Cardinality(LiveNodes(l)) = l.size
    /\ \A n \in LiveNodes(l) :
          n # l.tail => /\ l.nodes[n].next \in LiveNodes(l)
                        /\ l.nodes[l.nodes[n].next].prev = n
    /\ BackFrom(l.nodes, l.tail, Cardinality(DOMAIN l.nodes) + 1) = Reverse(Chain(l))

\* C29: in every state of the Int64LinkedList reached by inserts at the
\* front and at the back, removes by the handle of a node of the list and
\* removes by value, head->prev and tail->next are NULL, n->next->prev is n
\* for every node n but the tail, the traversal from tail along prev is the
\* reverse of the traversal from head along next, and size is the number of
\* nodes; removing the only node leaves head = tail = NULL and size = 0.
C29_LinksConsistent ==
    [][ lkind = "Int64LinkedList" =>
            /\ WellFormedDList(list')
            /\ (llast'.op \in {"removeNode", "removeValue"} /\ llast'.ret
                    /\ list.size = 1) =>
                   (list'.head = NULL /\ list'.tail = NULL /\ list'.size = 0) ]_vars

\* the only node of the list has been removed by its handle and the list is
\* back in the empty state
C29_Witness ==
    /\ lkind = "Int64LinkedList"
    /\ llast.op = "removeNode" /\ llast.ret /\ llast.node # NULL
    /\ list.size = 0 /\ list.head = NULL /\ list.tail = NULL

(***************************************************************************)
(* src/stringDynamicArray.c: struct { head, tail, size } and the nodes     *)
(* { data, next }.  A string is the sequence of its characters before the  *)
(* terminating NUL.                                                        *)
(***************************************************************************)
NUL == ""

Strings == {<<>>, <<"a">>, <<"a", "b">>, <<"b">>}

strlen(str) == Len(str)

\* str[i - 1]: the terminating NUL behind the last character
CharAt(str, i) == IF i <= Len(str) THEN str[i] ELSE NUL

\* strncmp(a, b, n) from character i on: 0 when no difference is found within
\* n characters or before the NUL, 1 for any other result
RECURSIVE strncmpFrom(_, _, _, _)
strncmpFrom(a, b, n, i) ==
    IF i > n THEN 0
    ELSE IF CharAt(a, i) # CharAt(b, i) THEN 1
    ELSE IF CharAt(a, i) = NUL THEN 0
    ELSE strncmpFrom(a, b, n, i + 1)

strncmp(a, b, n) == strncmpFrom(a, b, n, 1)

FreeStringNode == [data |-> <<>>, next |-> NULL, live |-> FALSE]

initializeStringDynamicArray ==
    [head |-> NULL, tail |-> NULL, size |-> 0,
     nodes |-> [n \in NodeIds |-> FreeStringNode]]

\* the array after calloc and strdup have succeeded
appendStringLink(array, newNode, string) ==
    IF array.head = NULL
    THEN [array EXCEPT !.nodes[newNode] = [data |-> string, next |-> NULL, live |-> TRUE],
                       !.head = newNode, !.tail = newNode,
                       !.size = array.size + 1]
    ELSE [array EXCEPT !.nodes[newNode] = [data |-> string, next |-> NULL, live |-> TRUE],
                       !.nodes[array.tail].next = newNode,
                       !.tail = newNode,
                       !.size = array.size + 1]

appendStringDynamicArray(array, string, callocOk, strdupOk) ==
    IF ~callocOk \/ ~strdupOk THEN [list |-> array, ret |-> FALSE]
    ELSE [list |-> appendStringLink(array, NewNode(array.nodes), string), ret |-> TRUE]

\* the loop of find from current on, idx counting the nodes passed
RECURSIVE findStringFrom(_, _, _, _)
findStringFrom(array, current, string, idx) ==
    IF current = NULL THEN [ret |-> FALSE, index |-> 0]
    ELSE IF strncmp(string, array.nodes[current].data, strlen(string)) = 0
    THEN [ret |-> TRUE, index |-> idx]
    ELSE findStringFrom(array, array.nodes[current].next, string, idx + 1)

findStringDynamicArray(array, string) == findStringFrom(array, array.head, string, 0)

\* the loop of delete: current and previous when it ends
RECURSIVE deleteScan(_, _, _, _)
deleteScan(array, current, previous, string) ==
    IF current = NULL
          \/ strncmp(array.nodes[current].data, string, strlen(string)) = 0
    THEN [current |-> current, previous |-> previous]
    ELSE deleteScan(array, array.nodes[current].next, current, string)

deleteUnlink(array, current, previous) ==
    [array EXCEPT
        !.head = IF previous # NULL THEN array.head ELSE array.nodes[current].next,
        !.nodes = [n \in DOMAIN array.nodes |->
                      IF n = current THEN FreeStringNode
                      ELSE IF n = previous
                      THEN [array.nodes[n] EXCEPT !.next = array.nodes[current].next]
                      ELSE array.nodes[n]],
        !.tail = IF current = array.tail THEN previous ELSE array.tail,
        !.size = array.size - 1]

deleteStringDynamicArray(array, string) ==
    IF deleteScan(array, array.head, NULL, string).current = NULL
    THEN [list |-> array, ret |-> FALSE]
    ELSE [list |-> deleteUnlink(array, deleteScan(array, array.head, NULL, string).current,
                                deleteScan(array, array.head, NULL, string).previous),
          ret |-> TRUE]

(***************************************************************************)
(* SpecStrings: appends, finds and deletes on a stringDynamicArray in any  *)
(* order, with the strings of Strings.                                     *)
(***************************************************************************)
InitStrings ==
    /\ lkind = "stringDynamicArray"
    /\ list = initializeStringDynamicArray
    /\ llast = [op |-> "init", ret |-> TRUE, string |-> <<>>, index |-> 0]
    /\ IdleSet
    /\ IdleMap
    /\ IdleBox
    /\ IdleHash

StringAppend(string, callocOk, strdupOk) ==
    /\ list.size < MaxListNodes
    /\ list' = appendStringDynamicArray(list, string, callocOk, strdupOk).list
    /\ llast' = [op |-> "append",
                 ret |-> appendStringDynamicArray(list, string, callocOk, strdupOk).ret,
                 string |-> string, index |-> 0]
    /\ UNCHANGED <<lkind, notListVars>>

StringFind(string) ==
    /\ llast' = [op |-> "find", ret |-> findStringDynamicArray(list, string).ret,
                 string |-> string, index |-> findStringDynamicArray(list, string).index]
    /\ UNCHANGED <<list, lkind, notListVars>>

StringDelete(string) ==
    /\ list' = deleteStringDynamicArray(list, string).list
    /\ llast' = [op |-> "delete", ret |-> deleteStringDynamicArray(list, string).ret,
                 string |-> string, index |-> 0]
    /\ UNCHANGED <<lkind, notListVars>>

NextStrings ==
    \/ \E string \in Strings, callocOk \in BOOLEAN, strdupOk \in BOOLEAN :
          StringAppend(string, callocOk, strdupOk)
    \/ \E string \in Strings : StringFind(string)
    \/ \E string \in Strings : StringDelete(string)

SpecStrings == InitStrings /\ [][NextStrings]_vars

\* the strings of the array, from head on
Elements(l) == [i \in 1 .. Len(Chain(l)) |-> l.nodes[Chain(l)[i]].data]

\* q without its element i
Without(q, i) == SubSeq(q, 1, i - 1) \o SubSeq(q, i + 1, Len(q))

\* C30: findStringDynamicArray(s) returns true with the index of the first
\* element equal to the string s, and false when no element equals s;
\* deleteStringDynamicArray(s) removes only an element equal to s and
\* returns false, leaving the sequence unchanged, when no element equals s.
\* An element that merely starts with s, or any element when s is empty, is
\* no match.
C30_ExactMatch ==
    [][ lkind = "stringDynamicArray" =>
            /\ llast'.op = "find" =>
                   IF \E i \in 1 .. Len(Elements(list)) :
                         Elements(list)[i] = llast'.string
                   THEN /\ llast'.ret
                        /\ Elements(list)[llast'.index + 1] = llast'.string
                        /\ \A i \in 1 .. llast'.index :
                              Elements(list)[i] # llast'.string
                   ELSE ~llast'.ret
            /\ llast'.op = "delete" =>
                   IF \E i \in 1 .. Len(Elements(list)) :
                         Elements(list)[i] = llast'.string
                   THEN /\ llast'.ret
                        /\ \E i \in 1 .. Len(Elements(list)) :
                              /\ Elements(list)[i] = llast'.string
                              /\ Elements(list') = Without(Elements(list), i)
                   ELSE ~llast'.ret /\ Elements(list') = Elements(list) ]_vars

(***************************************************************************)
(* SpecOwn: who owns the copies a StringStack makes.  As in main every     *)
(* push pushes another string, so a copy is known by its characters.  bref *)
(* counts, for every string, the copies strdup made of it (made), the pops *)
(* that handed it to the caller (handed) and the calls of free() on it by  *)
(* freeStringStack (released).  Nothing is done with the stack after       *)
(* freeStringStack.                                                        *)
(***************************************************************************)
PushedStrings == <<"hello", "world", "cyberpunk", "Klojure">>
OwnCapacities == {1, 2}

NoCopies == [str \in {PushedStrings[i] : i \in 1 .. Len(PushedStrings)} |-> 0]

\* how often str is among the pointers of the sequence freed
TimesIn(freed, str) == Cardinality({i \in 1 .. Len(freed) : freed[i] = str})

InitOwn ==
    /\ \E c \in OwnCapacities :
          /\ bctx = [kind |-> "StringStack", cap0 |-> c, built |-> TRUE]
          /\ box = initializeStringStack(c, TRUE).box
    /\ blast = [op |-> "create", value |-> NullString, ret |-> TRUE,
                out |-> NullString, fault |-> NoFault, grew |-> FALSE]
    /\ bref = [pushes |-> 0, made |-> NoCopies, handed |-> NoCopies,
               released |-> NoCopies]
    /\ IdleSet
    /\ IdleMap
    /\ IdleHash
    /\ IdleList

OwnPush(reallocOk, strdupOk) ==
    /\ blast.op # "free"
    /\ bref.pushes < Len(PushedStrings)
    /\ box.top >= box.capacity => 2 * box.capacity <= MaxBoxCapacity
    /\ box' = pushStringStack(box, PushedStrings[bref.pushes + 1], reallocOk,
                              strdupOk).box
    /\ blast' = Called("put", PushedStrings[bref.pushes + 1],
                       pushStringStack(box, PushedStrings[bref.pushes + 1],
                                       reallocOk, strdupOk))
    /\ bref' = [bref EXCEPT
                   !.pushes = bref.pushes + 1,
                   !.made[PushedStrings[bref.pushes + 1]] =
                       IF strdupOk /\ (reallocOk \/ box.top < box.capacity)
                       THEN 1 ELSE 0]
    /\ UNCHANGED <<bctx, setVars, mapVars, hcall, listVars>>

OwnPop ==
    /\ blast.op # "free"
    /\ box' = popStringStack(box).box
    /\ blast' = Called("take", NullString, popStringStack(box))
    /\ bref' = IF popStringStack(box).ret
               THEN [bref EXCEPT !.handed[popStringStack(box).out] =
                                     bref.handed[popStringStack(box).out] + 1]
               ELSE bref
    /\ UNCHANGED <<bctx, setVars, mapVars, hcall, listVars>>

OwnPeek ==
    /\ blast.op # "free"
    /\ blast' = Called("look", NullString, peekStringStack(box))
    /\ UNCHANGED <<box, bctx, bref, setVars, mapVars, hcall, listVars>>

OwnFree ==
    /\ blast.op # "free"
    /\ box' = freeStringStack(box).box
    /\ blast' = [op |-> "free", value |-> NullString, ret |-> TRUE,
                 out |-> NullString, fault |-> NoFault, grew |-> FALSE]
    /\ bref' = [bref EXCEPT
                   !.released = [str \in DOMAIN bref.released |->
                                    bref.released[str]
                                        + TimesIn(freeStringStack(box).freed, str)]]
    /\ UNCHANGED <<bctx, setVars, mapVars, hcall, listVars>>

NextOwn ==
    \/ \E reallocOk \in BOOLEAN, strdupOk \in BOOLEAN : OwnPush(reallocOk, strdupOk)
    \/ OwnPop
    \/ OwnPeek
    \/ OwnFree

SpecOwn == InitOwn /\ [][NextOwn]_vars

\* the strings stored in the stack, as a set
InStack(b) == {b.data[i] : i \in 0 .. (b.top - 1)}

CreateCapacities == 1 .. 3
LoadFactorArguments ==
    {[num |-> -1, den |-> 2], [num |-> 0, den |-> 1], [num |-> 1, den |-> 4],
     [num |-> 1, den |-> 2], [num |-> 3, den |-> 4], [num |-> 1, den |-> 1],
     [num |-> 3, den |-> 2]}

\* the set pointer when int64SetCreate has returned NULL
NullSet == [slots |-> <<>>, size |-> 0, capacity |-> 0,
            loadFactor |-> [num |-> 0, den |-> 1]]

\* a check that lets the load factor 1 through
ValidLoadFactor_ClosedAbove(loadFactor) ==
    ~(loadFactor.num <= 0 \/ loadFactor.num > loadFactor.den)

\* !(set->loadFactor <= 0.0f || set->loadFactor >= 1.0f)
ValidLoadFactor(loadFactor) ==
    ~(loadFactor.num <= 0 \/ loadFactor.num >= loadFactor.den)

\* int64SetCreate from its first line: allocSet and allocSlots are the
\* outcomes of the two calloc calls
int64SetCreateChecked(capacity, loadFactor, allocSet, allocSlots) ==
    IF ~allocSet THEN [ret |-> FALSE, set |-> NullSet]
    ELSE IF ~ValidLoadFactor(loadFactor) THEN [ret |-> FALSE, set |-> NullSet]
    ELSE IF ~allocSlots THEN [ret |-> FALSE, set |-> NullSet]
    ELSE [ret |-> TRUE, set |-> int64SetCreate(capacity, loadFactor)]

InitCreate ==
    /\ set = NullSet
    /\ members = {}
    /\ last = NoCall
    /\ pc = [created |-> FALSE, capacity |-> 0, loadFactor |-> [num |-> 0, den |-> 1],
             alloc |-> FALSE]
    /\ IdleMap
    /\ IdleBox
    /\ IdleHash
    /\ IdleList

CreateCall(capacity, loadFactor, allocSet, allocSlots) ==
    /\ set' = int64SetCreateChecked(capacity, loadFactor, allocSet, allocSlots).set
    /\ members' = {}
    /\ last' = [NoCall EXCEPT
                   !.ret = int64SetCreateChecked(capacity, loadFactor, allocSet,
                                                 allocSlots).ret,
                   !.allocOk = allocSet /\ allocSlots]
    /\ pc' = [created |-> int64SetCreateChecked(capacity, loadFactor, allocSet,
                                                allocSlots).ret,
              capacity |-> capacity, loadFactor |-> loadFactor,
              alloc |-> allocSet /\ allocSlots]
    /\ UNCHANGED notSetVars

CreatedInsert(k, allocOk) ==
    /\ pc.created
    /\ InsertAllowed(set)
    /\ InsertCall(k, allocOk)
    /\ UNCHANGED <<pc, notSetVars>>

CreatedContains(k) ==
    /\ pc.created
    /\ ContainsCall(k)
    /\ UNCHANGED <<pc, notSetVars>>

NextCreate ==
    \/ \E capacity \in CreateCapacities, loadFactor \in LoadFactorArguments,
          allocSet \in BOOLEAN, allocSlots \in BOOLEAN :
          CreateCall(capacity, loadFactor, allocSet, allocSlots)
    \/ \E k \in Keys, allocOk \in BOOLEAN : CreatedInsert(k, allocOk)
    \/ \E k \in Keys : CreatedContains(k)

SpecCreate == InitCreate /\ [][NextCreate]_vars

\* C32: int64SetCreate returns NULL for every load factor <= 0 or >= 1, and
\* for every load factor strictly between 0 and 1 it succeeds when the
\* allocations succeed, with size 0, the capacity asked for and all slots
\* EMPTY.
C32_LoadFactorChecked ==
    [][ last'.op = "create" =>
            IF pc'.loadFactor.num <= 0 \/ pc'.loadFactor.num >= pc'.loadFactor.den
            THEN ~last'.ret /\ set' = NullSet
            ELSE pc'.alloc =>
                    /\ last'.ret
                    /\ set'.size = 0
                    /\ set'.capacity = pc'.capacity
                    /\ set'.loadFactor = pc'.loadFactor
                    /\ DOMAIN set'.slots = 0 .. (pc'.capacity - 1)
                    /\ \A i \in DOMAIN set'.slots : set'.slots[i].state = EMPTY
      ]_vars

\* a create with the load factor 1 has been refused although both
\* allocations would have succeeded
C32_Witness ==
    /\ last.op = "create" /\ ~last.ret /\ last.allocOk
    /\ pc.loadFactor = [num |-> 1, den |-> 1] /\ pc.capacity = 3
    /\ set = NullSet

(***************************************************************************)
(* Lookups of a key that is not stored, in SpecSet.                        *)
(***************************************************************************)
\* the number of slots the loop of int64SetRemove and int64SetContains
\* looks at before it returns
LookupProbes(s, key) ==
    IF LookupStops(s, key) = {} THEN s.capacity ELSE Min(LookupStops(s, key)) + 1

\* some OCCUPIED slot holds the key
HoldsKey(s, key) ==
    \E i \in DOMAIN s.slots : s.slots[i].state = OCCUPIED /\ s.slots[i].key = key

NoEmptySlot(s) == \A i \in DOMAIN s.slots : s.slots[i].state # EMPTY

\* C33: int64SetContains and int64SetRemove of a key that is not stored look
\* at no more than capacity slots and return false with the set unchanged,
\* also when no slot is EMPTY; int64SetContains never changes the set.
C33_AbsentKeyLookup ==
    [][ /\ last'.op = "contains" => set' = set
        /\ (last'.op \in {"contains", "remove"} /\ ~HoldsKey(set, last'.key)) =>
              /\ LookupProbes(set, last'.key) <= set.capacity
              /\ ~last'.ret
              /\ set' = set
      ]_vars

\* a remove of a key that is not stored has walked a table without EMPTY
\* slot, all of it, and returned false
C33_Witness ==
    /\ last.op = "remove" /\ ~last.ret
    /\ NoEmptySlot(set)
    /\ NumDeleted(set) >= 1
    /\ ~HoldsKey(set, last.key)
    /\ LookupProbes(set, last.key) = set.capacity

(***************************************************************************)
(* First match in the generic LinkedList, in SpecList.  For a find and a   *)
(* remove llast holds the target (data the pointer, value the int it       *)
(* points to) and node, the node the search ended at.                      *)
(***************************************************************************)
\* the positions, counted from head, of the nodes whose payload matches
MatchPositions(l, target) ==
    {i \in 1 .. Len(Chain(l)) :
        IF l.compareFunction
        THEN l.payloads[Contents(l)[i]].value = target.value
        ELSE Contents(l)[i] = target.ptr}

\* sequence seq with its element at position k left out
Skip(seq, k) == [i \in 1 .. (Len(seq) - 1) |-> IF i < k THEN seq[i] ELSE seq[i + 1]]

\* C34: removeLinkedList removes only the first node from head whose payload
\* matches the target (under compareFunction, or by pointer identity without
\* one), keeps the order of the other nodes, and returns false with the list
\* unchanged when no node matches; findLinkedList returns that same first
\* matching node and never changes the list.
C34_FirstMatch ==
    [][ (lkind = "LinkedList" /\ llast'.op \in {"find", "remove"}) =>
          LET target == [ptr |-> llast'.data, value |-> llast'.value]
              hits == MatchPositions(list, target)
          IN  /\ llast'.op = "find" => list' = list
              /\ llast'.ret <=> hits # {}
              /\ llast'.node = findLinkedList(list, list.head, target)
              /\ hits = {} => llast'.node = NULL /\ list' = list
              /\ hits # {} =>
                    /\ llast'.node = Chain(list)[Min(hits)]
                    /\ llast'.op = "remove" =>
                          /\ Chain(list') = Skip(Chain(list), Min(hits))
                          /\ Contents(list') = Skip(Contents(list), Min(hits))
                          /\ list'.size = list.size - 1
      ]_vars

\* a remove under compareFunction has taken the second of three nodes, the
\* first that matched, and left the third, which matches as well
C34_Witness ==
    /\ lkind = "LinkedList" /\ list.compareFunction
    /\ llast.op = "remove" /\ llast.ret
    /\ Contents(list) = <<1, 3>>
    /\ list.payloads[1].value # llast.value
    /\ list.payloads[2].value = llast.value
    /\ list.payloads[3].value = llast.value

(***************************************************************************)
(* Room for an absent key, in SpecSet.                                     *)
(***************************************************************************)
\* C35: in every state of an Int64Set reached by insert and remove, size is
\* the number of OCCUPIED slots and is below capacity, and int64SetInsert of
\* a key that is not stored returns true when allocation succeeds: its probe
\* loop finds a slot that is not OCCUPIED and never runs to its end.
C35_RoomForAbsentKey ==
    [][ /\ set.size = NumOccupied(set) /\ set.size < set.capacity
        /\ set'.size = NumOccupied(set') /\ set'.size < set'.capacity
        /\ (last'.op = "insert" /\ last'.allocOk /\ ~HoldsKey(set, last'.key)) =>
              /\ last'.ret
              /\ HoldsKey(set', last'.key)
              /\ set'.size = (IF last'.resized THEN NumOccupied(set) ELSE set.size) + 1
      ]_vars

\* an absent key has been inserted without a resize into a table that had
\* no EMPTY slot: the probe ended at a DELETED slot
C35_Witness ==
    /\ last.op = "insert" /\ last.ret /\ ~last.resized
    /\ NoEmptySlot(set)
    /\ NumDeleted(set) >= 1
    /\ set.size = NumOccupied(set) /\ set.size + 1 < set.capacity

(***************************************************************************)
(* Placement and load of the chaining hash maps, in SpecMap.               *)
(***************************************************************************)
\* every entry is linked in the bucket its key hashes to at the capacity of m
InHomeBucket(m) ==
    \A i \in DOMAIN m.buckets :
        \A a \in 1 .. Len(m.buckets[i]) :
            hashInt64(m.buckets[i][a].key, m.capacity) = i

\* C36: in every state of the chaining hash map reached by upsert and
\* remove, every entry is linked in the bucket whose index is
\* hashInt64(entry.key, capacity) for the current capacity, and after every
\* successful upsert size <= 0.75 * capacity: one doubling is enough.
C36_HomeBucketAndLoad ==
    [][ (kind \in MapKinds) =>
          /\ InHomeBucket(map) /\ InHomeBucket(map')
          /\ DOMAIN map'.buckets = 0 .. (map'.capacity - 1)
          /\ (mlast'.op = "upsert" /\ mlast'.ret) =>
                /\ 4 * map'.size <= 3 * map'.capacity
                /\ map'.capacity \in {map.capacity, 2 * map.capacity}
      ]_vars

\* an upsert has doubled the map from 16 to 32 buckets; key 17 has moved
\* from bucket 1 to bucket 17 and the 13 entries are within the load
C36_Witness ==
    /\ mlast.op = "upsert" /\ mlast.ret /\ mlast.resized
    /\ map.capacity = 32 /\ map.size = 13
    /\ \E a \in 1 .. Len(map.buckets[17]) : map.buckets[17][a].key = 17
    /\ \E a \in 1 .. Len(map.buckets[1]) : map.buckets[1][a].key = -1

(***************************************************************************)
(* SpecPair: an Int64MaxHeap (box, blast) and an Int64PriorityQueue (bref: *)
(* pq the queue, last its last call) created with the same capacity and    *)
(* driven by the same calls, with the same outcome of each reallocation.   *)
(* Extract / pop and peek are called on non-empty containers only.         *)
(***************************************************************************)
PairCapacities == {1, 2, 3}

InitPair ==
    /\ \E c \in PairCapacities :
          /\ bctx = [kind |-> "pair", cap0 |-> c, built |-> TRUE]
          /\ box = int64MaxHeapCreate(c, TRUE).box
          /\ bref = [pq |-> int64PriorityQueueCreate(c, TRUE).box,
                     last |-> [op |-> "create", value |-> 0, ret |-> TRUE, out |-> 0,
                               fault |-> NoFault, grew |-> FALSE]]
    /\ blast = [op |-> "create", value |-> 0, ret |-> TRUE, out |-> 0,
                fault |-> NoFault, grew |-> FALSE]
    /\ IdleSet
    /\ IdleMap
    /\ IdleHash
    /\ IdleList

PairPut(v, reallocOk) ==
    /\ box.size + 1 > box.capacity => box.capacity * 2 <= MaxBoxCapacity + 2
    /\ box' = int64MaxHeapInsert(box, v, reallocOk).box
    /\ blast' = Called("put", v, int64MaxHeapInsert(box, v, reallocOk))
    /\ bref' = [pq |-> int64PriorityQueuePush(bref.pq, v, reallocOk).box,
                last |-> Called("put", v, int64PriorityQueuePush(bref.pq, v, reallocOk))]
    /\ UNCHANGED <<bctx, setVars, mapVars, hcall, listVars>>

PairTake ==
    /\ box.size > 0 /\ bref.pq.size > 0
    /\ box' = int64MaxHeapExtract(box).box
    /\ blast' = Called("take", 0, int64MaxHeapExtract(box))
    /\ bref' = [pq |-> int64PriorityQueuePop(bref.pq).box,
                last |-> Called("take", 0, int64PriorityQueuePop(bref.pq))]
    /\ UNCHANGED <<bctx, setVars, mapVars, hcall, listVars>>

PairLook ==
    /\ box.size > 0 /\ bref.pq.size > 0
    /\ blast' = Called("look", 0, int64MaxHeapPeek(box))
    /\ bref' = [pq |-> int64PriorityQueuePeek(bref.pq).box,
                last |-> Called("look", 0, int64PriorityQueuePeek(bref.pq))]
    /\ UNCHANGED <<box, bctx, setVars, mapVars, hcall, listVars>>

NextPair ==
    \/ \E v \in HeapValues, reallocOk \in BOOLEAN : PairPut(v, reallocOk)
    \/ PairTake
    \/ PairLook

SpecPair == InitPair /\ [][NextPair]_vars

\* the used part data[0 .. size) of the array
UsedCells(b) == [i \in 0 .. (b.size - 1) |-> b.data[i]]

\* C37: an Int64PriorityQueue and an Int64MaxHeap created with the same
\* capacity and driven by the same push / insert, pop / extract and peek
\* calls on non-empty containers return the same values at every step and
\* hold the same size, capacity and array contents data[0 .. size) after
\* every step.
C37_HeapQueueEquivalent ==
    [][ bctx.kind = "pair" =>
          /\ bref'.last = blast'
          /\ bref'.pq.size = box'.size
          /\ bref'.pq.capacity = box'.capacity
          /\ UsedCells(bref'.pq) = UsedCells(box')
      ]_vars

\* both have been emptied by a third pop / extract, which the queue does
\* without a sift-down, after they had grown to four cells
C37_Witness ==
    /\ bctx.kind = "pair"
    /\ blast.op = "take" /\ blast.ret /\ bref.last.op = "take"
    /\ box.size = 0 /\ bref.pq.size = 0
    /\ box.capacity = 4 /\ bref.pq.capacity = 4
    /\ bref.last.out = blast.out

(***************************************************************************)
(* Peek and extract / pop as operations on the multiset of stored values,  *)
(* for both containers of SpecPair.                                        *)
(***************************************************************************)
\* number of copies of v in data[0 .. size)
Copies(b, v) == Cardinality({i \in 0 .. (b.size - 1) : b.data[i] = v})

\* the largest value in data[0 .. size) of a non-empty container
MaxStored(b) ==
    CHOOSE v \in {b.data[i] : i \in 0 .. (b.size - 1)} :
        \A i \in 0 .. (b.size - 1) : b.data[i] <= v

\* what a peek has to do: b and c the container before and after, r the call
PeekedMax(b, c, r) == r.ret /\ r.out = MaxStored(b) /\ c = b

\* what an extract / pop has to do
TookMax(b, c, r) ==
    /\ r.ret /\ r.out = MaxStored(b)
    /\ c.size = b.size - 1
    /\ c.capacity = b.capacity
    /\ \A v \in HeapValues :
          Copies(c, v) = Copies(b, v) - (IF v = r.out THEN 1 ELSE 0)

\* C38: int64MaxHeapPeek and int64PriorityQueuePeek on a non-empty container
\* return the maximum of the stored values and change nothing; extract / pop
\* returns that maximum, decreases size by exactly 1, leaves capacity
\* unchanged and leaves the multiset of the stored values without one copy
\* of the returned value, also when size drops to 0.
C38_MaxTaken ==
    [][ bctx.kind = "pair" =>
          /\ blast'.op = "look" =>
                /\ PeekedMax(box, box', blast')
                /\ PeekedMax(bref.pq, bref'.pq, bref'.last)
          /\ blast'.op = "take" =>
                /\ TookMax(box, box', blast')
                /\ TookMax(bref.pq, bref'.pq, bref'.last)
      ]_vars

\* the maximum has been taken out of six values and a second copy of it is
\* still stored, at the root
C38_Witness ==
    /\ bctx.kind = "pair"
    /\ blast.op = "take" /\ blast.ret
    /\ box.size = 5 /\ box.capacity = 6
    /\ box.data[0] = blast.out /\ bref.pq.data[0] = bref.last.out
    /\ Copies(box, blast.out) = 1
    /\ Copies(box, 1) >= 1

====
